---- MODULE Spec2Model ----
(***************************************************************************)
(* A model of the event retrieval, classification and aggregation pipeline *)
(* of the wallaby package (jdcasey/productivity-scripts):                  *)
(*   - CalendarClient.get_events       (wallaby/calendar_client.py)        *)
(*   - get_attendance_status           (wallaby/cli/download_notes.py)     *)
(*   - export_events_to_csv / export_stats_to_csv                          *)
(*                                     (wallaby/cli/list_events.py)        *)
(*   - list_events.get_date_range      (wallaby/cli/list_events.py)        *)
(*   - download_notes.get_date_range   (wallaby/cli/download_notes.py)     *)
(* Each component has its own specification (SpecFetch, SpecClassify, ...) *)
(* over the shared variables; a component that is not running stays idle.  *)
(***************************************************************************)
EXTENDS Integers, Sequences, FiniteSets, TLC

VARIABLES
    \* ---- CalendarClient.get_events ----
    fetch_pc,       \* "idle" | "request" | "waiting" | "done"
    events,         \* the local list `events`
    page_token,     \* the local `page_token`
    requests,       \* history: the list() requests issued, in order
    responses,      \* history: what the collaborator answered, in order
    printed,        \* history: what get_events printed
    fetch_result,   \* how get_events ended: nothing yet, a return value, a raise
    \* ---- get_attendance_status ----
    cls_pc,         \* "idle" | "call" | "done"
    cls_event,      \* the argument `event`
    cls_user_email, \* the argument `user_email`
    attendance_status,  \* the value returned
    \* ---- list_events.get_date_range ----
    mw_pc,          \* "idle" | "call" | "done"
    mw_now,         \* datetime.datetime.now(tz=utc) as read by the call
    mw_months,      \* the argument `months`
    mw_result,      \* (time_min, time_max) returned, or the exception raised
    \* ---- download_notes.get_date_range ----
    dw_pc,          \* "idle" | "call" | "done"
    dw_now,         \* datetime.datetime.now(tz=utc) as read by the call
    dw_days,        \* the argument `days`
    dw_result,      \* (time_min, time_max) returned
    \* ---- list_events.main / export_events_to_csv / export_stats_to_csv ----
    st_pc,          \* "idle" | "main" | "loop" | "done" | "failed"
    st_events,      \* the fetched `events`
    st_user_email,  \* config.email
    st_i,           \* position of the `for event in events` loop
    count,          \* the local `count`
    stats,          \* the dict `stats`, in insertion order
    current,        \* the local `current` (NoDate for None)
    cumulative_time,    \* the local `cumulative_time`, in seconds
    current_count,  \* the local `current_count`
    meetings_csv,   \* rows written to the meetings file
    stats_csv,      \* rows written to stats.csv
    st_error,       \* the exception that ended the run, if any
    \* ---- sanitize_filename ----
    sn_pc,          \* "idle" | "call" | "done"
    sn_filename,    \* the argument `filename`
    sn_result,      \* the value returned
    \* ---- DriveClient.is_gemini_note ----
    gm_pc,          \* "idle" | "call" | "done"
    gm_attachment,  \* the argument `attachment`
    gm_result,      \* the value returned
    \* ---- save_events_as_native / download_gemini_notes ----
    ar_pc,          \* "idle" | "loop" | "notes" | "done" | "failed"
    ar_events,      \* the argument `events`
    ar_user_email,  \* the argument `user_email`
    ar_drive,       \* whether a drive_client was passed
    ar_tree,        \* what the output directory held before the run
    ar_fs,          \* the files below the output directory
    ar_dirs,        \* the directories below the output directory
    ar_i,           \* position of the `for event in events` loop
    ar_j,           \* position of the `for i, attachment` loop
    ar_stats,       \* the dict `stats` of save_events_as_native
    gemini_stats,   \* the dict `gemini_stats`
    ar_status,      \* the local `attendance_status`
    ar_event_dir,   \* the local `event_dir`
    gemini_notes_downloaded,    \* the local of download_gemini_notes
    ar_writes,      \* history: the files opened for writing, in order
    ar_summary,     \* the summary printed at the end
    ar_error,       \* the exception that ended the run, if any
    \* ---- cli.main ----
    cli_pc,         \* "idle" | "parse" | "validate" | "auth" | "fetch" | "pipeline" | "exited"
    cli_command,    \* parsed_args.command
    cli_email,      \* the environment variable EMAIL
    cli_credentials,    \* the environment variable GOOGLE_CREDS_PATH and its file
    cli_log,        \* history: what happened in the subcommand
    cli_exit,       \* how the process ends: the value returned to sys.exit, or SystemExit
    \* ---- the calendar collaborator ----
    chain,          \* its token chain: the response to each pageToken
    \* ---- GoogleAuth.get_credentials ----
    au_pc,          \* "idle" | "load" | "check" | "save" | "done"
    au_stored,      \* the token file when the call starts: None, or the credentials in it
    au_consent,     \* the credentials the interactive flow would return
    au_creds,       \* the local `creds`
    au_calls,       \* history: the calls to refresh() and to the flow
    au_written,     \* history: what was written to the token file
    au_result       \* what get_credentials returned or raised

fetchVars == <<fetch_pc, events, page_token, requests, responses, printed, fetch_result>>

clsVars == <<cls_pc, cls_event, cls_user_email, attendance_status>>

mwVars == <<mw_pc, mw_now, mw_months, mw_result>>

dwVars == <<dw_pc, dw_now, dw_days, dw_result>>

stVars == <<st_pc, st_events, st_user_email, st_i, count, stats, current,
            cumulative_time, current_count, meetings_csv, stats_csv, st_error>>

snVars == <<sn_pc, sn_filename, sn_result>>

gmVars == <<gm_pc, gm_attachment, gm_result>>

arVars == <<ar_pc, ar_events, ar_user_email, ar_drive, ar_tree, ar_fs, ar_dirs, ar_i, ar_j,
            ar_stats, gemini_stats, ar_status, ar_event_dir, gemini_notes_downloaded,
            ar_writes, ar_summary, ar_error>>

cliVars == <<cli_pc, cli_command, cli_email, cli_credentials, cli_log, cli_exit>>

chVars == <<chain>>

auVars == <<au_pc, au_stored, au_consent, au_creds, au_calls, au_written, au_result>>

vars == <<fetchVars, clsVars, mwVars, dwVars, stVars, snVars, gmVars, arVars, cliVars, chVars, auVars>>

\* What a step of one component leaves alone: the other components.
fetchOthers ==
    <<clsVars, mwVars, dwVars, stVars, snVars, gmVars, arVars, cliVars, chVars, auVars>>
clsOthers ==
    <<fetchVars, mwVars, dwVars, stVars, snVars, gmVars, arVars, cliVars, chVars, auVars>>
mwOthers ==
    <<fetchVars, clsVars, dwVars, stVars, snVars, gmVars, arVars, cliVars, chVars, auVars>>
dwOthers ==
    <<fetchVars, clsVars, mwVars, stVars, snVars, gmVars, arVars, cliVars, chVars, auVars>>
stOthers ==
    <<fetchVars, clsVars, mwVars, dwVars, snVars, gmVars, arVars, cliVars, chVars, auVars>>
snOthers ==
    <<fetchVars, clsVars, mwVars, dwVars, stVars, gmVars, arVars, cliVars, chVars, auVars>>
gmOthers ==
    <<fetchVars, clsVars, mwVars, dwVars, stVars, snVars, arVars, cliVars, chVars, auVars>>
arOthers ==
    <<fetchVars, clsVars, mwVars, dwVars, stVars, snVars, gmVars, cliVars, chVars, auVars>>
cliOthers ==
    <<fetchVars, clsVars, mwVars, dwVars, stVars, snVars, gmVars, arVars, chVars, auVars>>
chOthers ==
    <<fetchVars, clsVars, mwVars, dwVars, stVars, snVars, gmVars, arVars, cliVars, auVars>>
auOthers ==
    <<fetchVars, clsVars, mwVars, dwVars, stVars, snVars, gmVars, arVars, cliVars, chVars>>

\* Python's None.
None == "None"

\* dict.get(key, default) on a dict modelled as a record.
Get(d, key, default) == IF key \in DOMAIN d THEN d[key] ELSE default

(***************************************************************************)
(* Sequence helpers.                                                       *)
(***************************************************************************)
RECURSIVE SumSeq(_)
SumSeq(s) == IF s = <<>> THEN 0 ELSE Head(s) + SumSeq(Tail(s))

(***************************************************************************)
(* CalendarClient.get_events                                               *)
(***************************************************************************)

\* The most list() requests one call may issue in the model.
MaxRequests == 3

\* Config.page_size, passed as maxResults.
PageSize == 50

\* Continuation cursors the collaborator may hand out.
Tokens == {"t1", "t2"}

\* The 'items' of a response page, when the key is present.
PageItems == {<<>>, <<"e1">>, <<"e2", "e3">>}

\* The response pages the collaborator may return: 'items' present or not,
\* 'nextPageToken' present (a token) or not (None).
Pages ==
    [kind : {"page"}, hasItems : {TRUE}, items : PageItems, next : Tokens \cup {None}]
    \cup [kind : {"page"}, hasItems : {FALSE}, items : {<<>>}, next : Tokens \cup {None}]

\* Failures of execute() that are googleapiclient.errors.HttpError (an HTTP
\* error status from the API: authorization, rate limit).
HttpErrors == [kind : {"HttpError"}, why : {"authorization", "rateLimit"}]

\* Failures of execute() that are not HttpError (the transport itself failed).
OtherErrors == [kind : {"OtherError"}, why : {"network"}]

NoResult == [status |-> "none"]

\* events_result.get("items", [])
GetItems(resp) == IF resp.hasItems THEN resp.items ELSE <<>>

\* Mutant of Extend: the new page is put in front of the accumulated list.
ExtendInFront(evs, resp) == GetItems(resp) \o evs

\* events.extend(events_result.get("items", []))
Extend(evs, resp) == evs \o GetItems(resp)

\* Mutant of GetNextPageToken: any cursor is read as the first cursor "t1".
GetNextPageTokenFixed(resp) == IF resp.next = None THEN None ELSE "t1"

\* events_result.get('nextPageToken', None)
GetNextPageToken(resp) == resp.next

\* Mutant of Reraise: the caught error is wrapped in another exception.
RaiseWrapped(error) == [kind |-> "OtherError", why |-> error.why]

\* The bare `raise` of the except clause: the caught error itself.
Reraise(error) == error

\* The request built at lines 66-77 with the current page_token.
ListRequest(token) == [maxResults |-> PageSize, pageToken |-> token]

InitFetch ==
    /\ fetch_pc = "request"
    /\ events = <<>>
    /\ page_token = None
    /\ requests = <<>>
    /\ responses = <<>>
    /\ printed = <<>>
    /\ fetch_result = NoResult

IdleFetch ==
    /\ fetch_pc = "idle"
    /\ events = <<>>
    /\ page_token = None
    /\ requests = <<>>
    /\ responses = <<>>
    /\ printed = <<>>
    /\ fetch_result = NoResult

\* self.service.events().list(..., pageToken=page_token).execute() is called.
SendListRequest ==
    /\ fetch_pc = "request"
    /\ Len(requests) < MaxRequests
    /\ requests' = Append(requests, ListRequest(page_token))
    /\ fetch_pc' = "waiting"
    /\ UNCHANGED <<events, page_token, responses, printed, fetch_result>>
    /\ UNCHANGED fetchOthers

\* execute() returns a page: extend, report, read the cursor, break or loop.
ReceivePage ==
    /\ fetch_pc = "waiting"
    /\ \E resp \in Pages :
        LET evs == Extend(events, resp)
            tok == GetNextPageToken(resp)
            got == [msg |-> "got", n |-> Len(evs)]
        IN  /\ responses' = Append(responses, resp)
            /\ events' = evs
            /\ page_token' = tok
            /\ IF tok = None
               THEN /\ printed' = Append(printed, got)
                    /\ fetch_pc' = "done"
                    /\ fetch_result' = [status |-> "returned", value |-> evs]
               ELSE /\ printed' = printed \o <<got, [msg |-> "next", n |-> PageSize]>>
                    /\ fetch_pc' = "request"
                    /\ fetch_result' = fetch_result
    /\ UNCHANGED requests
    /\ UNCHANGED fetchOthers

\* execute() raises HttpError: the except clause prints and re-raises.
ReceiveHttpError ==
    /\ fetch_pc = "waiting"
    /\ \E error \in HttpErrors :
        /\ responses' = Append(responses, error)
        /\ printed' = Append(printed, [msg |-> "error", n |-> 0])
        /\ fetch_result' = [status |-> "raised", error |-> Reraise(error)]
    /\ fetch_pc' = "done"
    /\ UNCHANGED <<events, page_token, requests>>
    /\ UNCHANGED fetchOthers

\* execute() raises something that is not an HttpError: no except clause
\* matches, the exception leaves get_events as it is.
ReceiveOtherError ==
    /\ fetch_pc = "waiting"
    /\ \E error \in OtherErrors :
        /\ responses' = Append(responses, error)
        /\ fetch_result' = [status |-> "raised", error |-> error]
    /\ fetch_pc' = "done"
    /\ UNCHANGED <<events, page_token, requests, printed>>
    /\ UNCHANGED fetchOthers

NextFetch ==
    \/ SendListRequest
    \/ ReceivePage
    \/ ReceiveHttpError
    \/ ReceiveOtherError

(***************************************************************************)
(* Claims about CalendarClient.get_events (checked under SpecFetch).       *)
(***************************************************************************)

IsPage(resp) == resp.kind = "page"

\* What one response page contributes: its 'items', nothing without the key.
Contribution(resp) == IF IsPage(resp) /\ resp.hasItems THEN resp.items ELSE <<>>

RECURSIVE ConcatPages(_)
ConcatPages(resps) ==
    IF resps = <<>> THEN <<>> ELSE Contribution(Head(resps)) \o ConcatPages(Tail(resps))

PageSizes(resps) == [i \in 1..Len(resps) |-> Len(Contribution(resps[i]))]

\* N >= 1 pages were received and exactly the last one carries no nextPageToken.
OnlyLastPageLacksToken ==
    /\ responses # <<>>
    /\ \A i \in 1..Len(responses) :
        /\ IsPage(responses[i])
        /\ (responses[i].next = None) <=> (i = Len(responses))

\* C1: when N >= 1 pages were received of which exactly the last carries no
\* nextPageToken, get_events has returned the concatenation of the pages'
\* items in the order received (a page without 'items' contributing nothing),
\* so the result's length is the sum of the page sizes; and it returns in no
\* other situation.
C1_ReturnsConcatenation ==
    /\ OnlyLastPageLacksToken =>
        /\ fetch_result.status = "returned"
        /\ fetch_result.value = ConcatPages(responses)
        /\ Len(fetch_result.value) = SumSeq(PageSizes(responses))
    /\ fetch_result.status = "returned" => OnlyLastPageLacksToken

\* C1 witness: three pages, one of them without 'items', were concatenated.
C1_Witness ==
    /\ fetch_result.status = "returned"
    /\ Len(responses) = 3
    /\ \E i \in 1..3 : ~responses[i].hasItems
    /\ Len(fetch_result.value) >= 3

\* C2: the first request carries no page token, every later request carries
\* the nextPageToken of the response just before it, at most one request is
\* outstanding and it is issued only once every earlier response has been
\* consumed into `events`, and no request follows a response without a
\* nextPageToken (N pages means exactly N requests).
C2_SerialCursorChain ==
    /\ requests # <<>> => requests[1].pageToken = None
    /\ \A i \in 2..Len(requests) :
        /\ i - 1 <= Len(responses)
        /\ IsPage(responses[i - 1])
        /\ responses[i - 1].next # None
        /\ requests[i].pageToken = responses[i - 1].next
    /\ Len(requests) - Len(responses) \in {0, 1}
    /\ Len(requests) = Len(responses) + 1 <=> fetch_pc = "waiting"
    /\ fetch_pc = "waiting" => events = ConcatPages(responses)
    /\ fetch_result.status = "returned" => Len(requests) = Len(responses)

\* C2 witness: three requests were issued, the later two with different cursors.
C2_Witness ==
    /\ fetch_result.status = "returned"
    /\ Len(requests) = 3
    /\ requests[2].pageToken # requests[3].pageToken

ErrorDiagnostics == Cardinality({i \in 1..Len(printed) : printed[i].msg = "error"})

\* What holds of every failed call, whatever the failure.
FailurePropagatesUnmodified ==
    /\ responses # <<>>
    /\ ~IsPage(responses[Len(responses)])
    /\ fetch_result.error = responses[Len(responses)]
    /\ DOMAIN fetch_result = {"status", "error"}
    /\ Len(requests) = Len(responses)
    /\ fetch_pc = "done"

\* C3 as stated: every failure of a page request, whatever its kind, is
\* surfaced as exactly one diagnostic and then raised unmodified, with no
\* further request and no partial result.
C3_Original_OneDiagnosticAlways ==
    /\ fetch_result.status = "raised" =>
        /\ FailurePropagatesUnmodified
        /\ ErrorDiagnostics = 1
    /\ \A i \in 1..Len(responses) :
        ~IsPage(responses[i]) => fetch_result.status = "raised"

\* C3 amended: every failure of a page request (first or later) is raised
\* unmodified to the caller, with no further request and no partial result;
\* exactly one diagnostic is surfaced when the failure is an HttpError, and
\* none when it is any other exception.
C3_FailurePropagates ==
    /\ fetch_result.status = "raised" =>
        /\ FailurePropagatesUnmodified
        /\ ErrorDiagnostics = IF fetch_result.error.kind = "HttpError" THEN 1 ELSE 0
    /\ fetch_result.status # "raised" => ErrorDiagnostics = 0
    /\ \A i \in 1..Len(responses) :
        ~IsPage(responses[i]) => fetch_result.status = "raised"

\* C3 witness: an HttpError on a later page, after events had been collected.
C3_Witness ==
    /\ fetch_result.status = "raised"
    /\ fetch_result.error.kind = "HttpError"
    /\ Len(responses) >= 2
    /\ events # <<>>
    /\ ErrorDiagnostics = 1

(***************************************************************************)
(* get_attendance_status                                                   *)
(***************************************************************************)

\* The longest attendee list of an event in the model.
MaxAttendees == 2

\* Strings are sequences of characters, so that str.lower() can be modelled.
StrA1 == <<"a", "@", "x">>
StrA2 == <<"A", "@", "x">>
StrA3 == <<"a", "@", "X">>
StrB1 == <<"b", "@", "x">>

\* The letters of the model's strings.
UpperLetters == <<"A","B","C","D","E","F","G","H","I","J","K","L","M","N","O","P","Q","R","S","T","U","V","W","X","Y","Z">>
LowerLetters == <<"a","b","c","d","e","f","g","h","i","j","k","l","m","n","o","p","q","r","s","t","u","v","w","x","y","z">>

\* Mutant of LowerChar: letters keep their case.
LowerCharKeepsCase(c) == c

\* str.lower() on one character.
LowerChar(c) ==
    IF \E i \in DOMAIN UpperLetters : UpperLetters[i] = c
    THEN LowerLetters[CHOOSE i \in DOMAIN UpperLetters : UpperLetters[i] = c]
    ELSE c

\* str.lower()
Lower(str) == [i \in DOMAIN str |-> LowerChar(str[i])]

\* The e-mail addresses attendees carry, and those the user is configured with.
AttendeeEmails == {StrA1, StrA2, StrA3, StrB1}
UserEmails == {StrA1, StrA2, StrB1}

\* The responseStatus values of the calendar API.
ResponseStatuses == {"accepted", "declined", "tentative", "needsAction"}

\* Attendee dicts: 'email' and 'responseStatus' are each present or not.
ClsAttendees ==
    [email : AttendeeEmails, responseStatus : ResponseStatuses]
    \cup [email : AttendeeEmails]
    \cup [responseStatus : ResponseStatuses]
    \cup {[self |-> TRUE]}

SeqsUpTo(S, n) == UNION {[1..k -> S] : k \in 0..n}

\* Event dicts: with an 'attendees' list, or without the key.
ClsEvents ==
    [summary : {"m"}, attendees : SeqsUpTo(ClsAttendees, MaxAttendees)]
    \cup [summary : {"m"}]

AttendanceOutcomes == {"attended", "rejected", "unacknowledged"}

\* The body of the `for attendee in attendees` loop, and the fall-through return.
RECURSIVE ScanAttendees(_, _)
ScanAttendees(attendees, user_email) ==
    IF attendees = <<>>
    THEN "unacknowledged"
    ELSE LET attendee == Head(attendees) IN
         IF Lower(Get(attendee, "email", <<>>)) = Lower(user_email)
         THEN LET response_status == Get(attendee, "responseStatus", "needsAction") IN
              IF response_status = "accepted" THEN "attended"
              ELSE IF response_status = "declined" THEN "rejected"
              ELSE "unacknowledged"
         ELSE ScanAttendees(Tail(attendees), user_email)

\* Mutant of get_attendance_status: the last matching attendee decides.
get_attendance_status_last_match(event, user_email) ==
    LET attendees == Get(event, "attendees", <<>>)
        matching == {i \in DOMAIN attendees :
                        Lower(Get(attendees[i], "email", <<>>)) = Lower(user_email)}
    IN  IF matching = {}
        THEN "unacknowledged"
        ELSE LET last == CHOOSE i \in matching : \A j \in matching : j <= i
                 response_status == Get(attendees[last], "responseStatus", "needsAction")
             IN  IF response_status = "accepted" THEN "attended"
                 ELSE IF response_status = "declined" THEN "rejected"
                 ELSE "unacknowledged"
get_attendance_status(event, user_email) ==
    ScanAttendees(Get(event, "attendees", <<>>), user_email)

NoOutcome == "none"

InitClassify ==
    /\ cls_pc = "call"
    /\ cls_event \in ClsEvents
    /\ cls_user_email \in UserEmails
    /\ attendance_status = NoOutcome

IdleClassify ==
    /\ cls_pc = "idle"
    /\ cls_event = [summary |-> "m"]
    /\ cls_user_email = StrA1
    /\ attendance_status = NoOutcome

Classify ==
    /\ cls_pc = "call"
    /\ attendance_status' = get_attendance_status(cls_event, cls_user_email)
    /\ cls_pc' = "done"
    /\ UNCHANGED <<cls_event, cls_user_email>>
    /\ UNCHANGED clsOthers

NextClassify == Classify

(***************************************************************************)
(* Claims about get_attendance_status (checked under SpecClassify).        *)
(***************************************************************************)

UpperChar(c) ==
    IF \E i \in 1..26 : LowerLetters[i] = c
    THEN UpperLetters[CHOOSE i \in 1..26 : LowerLetters[i] = c]
    ELSE c

\* Two strings are equal ignoring letter case.
EqualIgnoringCase(s, t) ==
    /\ Len(s) = Len(t)
    /\ \A i \in 1..Len(s) : UpperChar(s[i]) = UpperChar(t[i])

ClsAttendeeList == IF "attendees" \in DOMAIN cls_event THEN cls_event.attendees ELSE <<>>

\* The attendees whose email equals user_email ignoring case.
ClsMatching ==
    {i \in 1..Len(ClsAttendeeList) :
        /\ "email" \in DOMAIN ClsAttendeeList[i]
        /\ EqualIgnoringCase(ClsAttendeeList[i].email, cls_user_email)}

StatusIs(a, status) == "responseStatus" \in DOMAIN a /\ a.responseStatus = status

\* C4: get_attendance_status is total (the call always completes) and returns
\* one of attended / rejected / unacknowledged; with exactly one attendee
\* whose email equals user_email ignoring case the result is 'attended' iff
\* that attendee's responseStatus is 'accepted', 'rejected' iff it is
\* 'declined' and 'unacknowledged' otherwise; with no matching attendee or no
\* attendee list the result is 'unacknowledged'.
C4_ClassificationTotal ==
    /\ cls_pc = "call" => ENABLED Classify
    /\ cls_pc = "done" =>
        /\ attendance_status \in AttendanceOutcomes
        /\ Cardinality(ClsMatching) = 1 =>
            LET a == ClsAttendeeList[CHOOSE i \in ClsMatching : TRUE] IN
                /\ attendance_status = "attended" <=> StatusIs(a, "accepted")
                /\ attendance_status = "rejected" <=> StatusIs(a, "declined")
                /\ attendance_status = "unacknowledged" <=>
                      ~StatusIs(a, "accepted") /\ ~StatusIs(a, "declined")
        /\ ClsMatching = {} => attendance_status = "unacknowledged"

\* C4 witness: the single matching attendee is the second of two, differs
\* from user_email in letter case, and has accepted.
C4_Witness ==
    /\ cls_pc = "done"
    /\ ClsMatching = {2}
    /\ cls_event.attendees[2].email # cls_user_email
    /\ attendance_status = "attended"

\* The first attendee, in list order, whose email equals user_email.
FirstMatching == CHOOSE i \in ClsMatching : \A j \in ClsMatching : i <= j

\* The outcome one attendee entry stands for.
OutcomeOf(a) ==
    IF StatusIs(a, "accepted") THEN "attended"
    ELSE IF StatusIs(a, "declined") THEN "rejected"
    ELSE "unacknowledged"

\* C21: when several attendees of one event have an email equal to
\* user_email ignoring case, get_attendance_status decides from the first of
\* them in list order only; the later matching entries never change the
\* outcome.
C21_FirstMatchWins ==
    (cls_pc = "done" /\ Cardinality(ClsMatching) >= 2) =>
        attendance_status = OutcomeOf(ClsAttendeeList[FirstMatching])

\* C21 witness: the first matching attendee is tentative, a later one (whose
\* email differs in letter case) has accepted, and the result is
\* 'unacknowledged'.
C21_Witness ==
    /\ cls_pc = "done"
    /\ ClsMatching = {1, 2}
    /\ cls_event.attendees[1].email # cls_event.attendees[2].email
    /\ StatusIs(cls_event.attendees[1], "tentative")
    /\ StatusIs(cls_event.attendees[2], "accepted")
    /\ attendance_status = "unacknowledged"

(***************************************************************************)
(* The datetime and calendar library functions the program calls, on the   *)
(* proleptic Gregorian calendar.                                           *)
(***************************************************************************)

\* calendar.isleap
IsLeap(year) == year % 4 = 0 /\ (year % 100 # 0 \/ year % 400 = 0)

\* Mutant of DaysInMonth: February always has 28 days.
DaysInMonthNoLeap(year, month) ==
    IF month = 2 THEN 28
    ELSE IF month \in {4, 6, 9, 11} THEN 30 ELSE 31

\* calendar.monthrange(year, month)[1]
DaysInMonth(year, month) ==
    IF month = 2 THEN (IF IsLeap(year) THEN 29 ELSE 28)
    ELSE IF month \in {4, 6, 9, 11} THEN 30 ELSE 31

\* Days before January 1st of `year`.
DaysBeforeYear(year) ==
    LET y == year - 1 IN y * 365 + (y \div 4) - (y \div 100) + (y \div 400)

\* Days of `year` before the first day of `month`.
RECURSIVE DaysBeforeMonth(_, _)
DaysBeforeMonth(year, month) ==
    IF month = 1 THEN 0
    ELSE DaysBeforeMonth(year, month - 1) + DaysInMonth(year, month - 1)

\* date.toordinal(): 0001-01-01 is day 1.
Ymd2Ord(year, month, day) == DaysBeforeYear(year) + DaysBeforeMonth(year, month) + day

\* date.fromordinal(), as the datetime module computes it.
Ord2Ymd(ordinal) ==
    LET n0   == ordinal - 1
        n400 == n0 \div 146097
        r400 == n0 % 146097
        n100 == r400 \div 36524
        r100 == r400 % 36524
        n4   == r100 \div 1461
        r4   == r100 % 1461
        n1   == r4 \div 365
        n    == r4 % 365
        year == n400 * 400 + 1 + n100 * 100 + n4 * 4 + n1
    IN  IF n1 = 4 \/ n100 = 4
        THEN [year |-> year - 1, month |-> 12, day |-> 31]
        ELSE LET est   == (n + 50) \div 32
                 month == IF DaysBeforeMonth(year, est) > n THEN est - 1 ELSE est
             IN  [year |-> year, month |-> month,
                  day |-> n - DaysBeforeMonth(year, month) + 1]

\* datetime.replace(**fields): ValueError when the fields name no date.
ValueError == [error |-> "ValueError"]

IsValidDate(year, month, day) ==
    /\ year \in 1..9999
    /\ month \in 1..12
    /\ day \in 1..DaysInMonth(year, month)

Replace(dt, fields) ==
    LET new == [k \in DOMAIN dt |-> IF k \in DOMAIN fields THEN fields[k] ELSE dt[k]]
    IN  IF IsValidDate(new.year, new.month, new.day) THEN new ELSE ValueError

\* datetime - datetime.timedelta(days=days)
MinusDays(dt, days) ==
    LET d == Ord2Ymd(Ymd2Ord(dt.year, dt.month, dt.day) - days)
    IN  [dt EXCEPT !.year = d.year, !.month = d.month, !.day = d.day]

\* datetime.isoformat() of an aware UTC datetime, as the list of the fields
\* the string shows: YYYY-MM-DDTHH:MM:SS[.ffffff]+00:00. The fraction is
\* left out when microsecond is 0; the last field is the UTC offset in minutes.
IsoFormat(dt) ==
    IF dt.microsecond = 0
    THEN <<dt.year, dt.month, dt.day, dt.hour, dt.minute, dt.second, 0>>
    ELSE <<dt.year, dt.month, dt.day, dt.hour, dt.minute, dt.second, dt.microsecond, 0>>

\* The instants `now` the model reads from the clock.
NowYears == {2023, 2024, 2100}
NowTimes ==
    { [hour |-> 0, minute |-> 0, second |-> 0, microsecond |-> 0],
      [hour |-> 12, minute |-> 30, second |-> 15, microsecond |-> 123456],
      [hour |-> 23, minute |-> 59, second |-> 59, microsecond |-> 999999] }

DateTime(year, month, day, time) ==
    [year |-> year, month |-> month, day |-> day, hour |-> time.hour,
     minute |-> time.minute, second |-> time.second, microsecond |-> time.microsecond]

Nows ==
    {DateTime(y, m, d, t) :
        y \in NowYears, m \in 1..12, d \in {1, 15}, t \in NowTimes}
    \cup {DateTime(y, m, DaysInMonth(y, m), t) :
        y \in NowYears, m \in 1..12, t \in NowTimes}

(***************************************************************************)
(* list_events.get_date_range                                              *)
(***************************************************************************)

\* The largest `months` argument in the model.
MaxMonths == 14

\* Mutant of WrapMonth: the wrap is off by one month.
WrapMonthOffByOne(monthoffset) == 12 - monthoffset

\* startmonth = 12 - (monthoffset - 1)
WrapMonth(monthoffset) == 12 - (monthoffset - 1)

\* Lines 28-37: the start year and month.
StartYearMonth(now, months) ==
    LET monthoffset == months - 1 IN
    IF monthoffset > 0
    THEN IF now.month <= monthoffset
         THEN [startyear |-> now.year - 1, startmonth |-> WrapMonth(monthoffset)]
         ELSE [startyear |-> now.year, startmonth |-> now.month - monthoffset]
    ELSE [startyear |-> now.year, startmonth |-> now.month]

list_events_get_date_range(now, months) ==
    LET dayrange == DaysInMonth(now.year, now.month)
        sym   == StartYearMonth(now, months)
        start == Replace(now, [year |-> sym.startyear, month |-> sym.startmonth,
                               day |-> 1, hour |-> 0, minute |-> 0, second |-> 0])
        end   == Replace(now, [day |-> dayrange, hour |-> 23, minute |-> 59,
                               second |-> 59])
    IN  IF start = ValueError THEN [status |-> "raised", error |-> "ValueError"]
        ELSE IF end = ValueError THEN [status |-> "raised", error |-> "ValueError"]
        ELSE [status |-> "returned",
              time_min |-> IsoFormat(start), time_max |-> IsoFormat(end)]

InitMonthWindow ==
    /\ mw_pc = "call"
    /\ mw_now \in Nows
    /\ mw_months \in 1..MaxMonths
    /\ mw_result = NoResult

IdleMonthWindow ==
    /\ mw_pc = "idle"
    /\ mw_now = DateTime(2024, 1, 15, [hour |-> 0, minute |-> 0, second |-> 0, microsecond |-> 0])
    /\ mw_months = 3
    /\ mw_result = NoResult

MonthWindow ==
    /\ mw_pc = "call"
    /\ mw_result' = list_events_get_date_range(mw_now, mw_months)
    /\ mw_pc' = "done"
    /\ UNCHANGED <<mw_now, mw_months>>
    /\ UNCHANGED mwOthers

NextMonthWindow == MonthWindow

(***************************************************************************)
(* download_notes.get_date_range                                           *)
(***************************************************************************)

\* The largest `days` argument of the contiguous range in the model.
MaxDays == 3

\* Larger look-backs: the default (30 days), a year, a leap year.
LongDays == {30, 365, 366}

\* Mutant of StartOfDay: the microsecond field is not reset.
StartOfDayKeepsMicrosecond(dt) == Replace(dt, [hour |-> 0, minute |-> 0, second |-> 0])

\* start.replace(hour=0, minute=0, second=0, microsecond=0)
StartOfDay(dt) == Replace(dt, [hour |-> 0, minute |-> 0, second |-> 0, microsecond |-> 0])

\* now.replace(hour=23, minute=59, second=59, microsecond=999999)
EndOfDay(dt) == Replace(dt, [hour |-> 23, minute |-> 59, second |-> 59, microsecond |-> 999999])

download_notes_get_date_range(now, days) ==
    LET start == StartOfDay(MinusDays(now, days))
        end   == EndOfDay(now)
    IN  [status |-> "returned", time_min |-> IsoFormat(start), time_max |-> IsoFormat(end)]

InitDayWindow ==
    /\ dw_pc = "call"
    /\ dw_now \in Nows
    /\ dw_days \in (0..MaxDays) \cup LongDays
    /\ dw_result = NoResult

IdleDayWindow ==
    /\ dw_pc = "idle"
    /\ dw_now = DateTime(2024, 1, 15, [hour |-> 0, minute |-> 0, second |-> 0, microsecond |-> 0])
    /\ dw_days = 30
    /\ dw_result = NoResult

DayWindow ==
    /\ dw_pc = "call"
    /\ dw_result' = download_notes_get_date_range(dw_now, dw_days)
    /\ dw_pc' = "done"
    /\ UNCHANGED <<dw_now, dw_days>>
    /\ UNCHANGED dwOthers

NextDayWindow == DayWindow

(***************************************************************************)
(* list_events.main (from the fetched events on), export_events_to_csv and *)
(* export_stats_to_csv                                                     *)
(***************************************************************************)

\* The longest list of fetched events in the model.
MaxEvents == 3

\* A dateTime string "YYYY-MM-DDTHH:MM:SS+HH:MM" is the list of the fields it
\* shows, the UTC offset last, in minutes (as IsoFormat writes them).
Stamp(year, month, day, hour, minute, offset) ==
    <<year, month, day, hour, minute, 0, offset>>

\* dateutil.parser.parse of a dateTime string: an aware datetime.
ParseDateTime(str) ==
    [year |-> str[1], month |-> str[2], day |-> str[3], hour |-> str[4],
     minute |-> str[5], second |-> str[6], utcoffset |-> str[Len(str)]]

\* aware datetime - aware datetime, a timedelta in seconds: both operands
\* are taken to UTC.
TimeDiff(end, start) ==
    (Ymd2Ord(end.year, end.month, end.day)
        - Ymd2Ord(start.year, start.month, start.day)) * 86400
    + (end.hour - start.hour) * 3600
    + (end.minute - start.minute) * 60
    + (end.second - start.second)
    - (end.utcoffset - start.utcoffset) * 60

\* start.strftime('%Y-%m-%d'): the date in the datetime's own offset.
DateStr(dt) == <<dt.year, dt.month, dt.day>>

\* `current = None`
NoDate == <<>>

\* str(timedelta): [D day(s), ]H:MM:SS
TimedeltaStr(seconds) ==
    [days |-> seconds \div 86400,
     hours |-> (seconds % 86400) \div 3600,
     minutes |-> (seconds % 3600) \div 60,
     seconds |-> seconds % 60]

\* int(x / n) for n > 0: the quotient truncated towards zero.
IntDiv(x, n) == IF x >= 0 THEN x \div n ELSE -((-x) \div n)

RECURSIVE Gcd(_, _)
Gcd(a, b) == IF b = 0 THEN a ELSE Gcd(b, a % b)

\* a / b for ints a >= 0, b > 0: the quotient itself, as a fraction in
\* lowest terms.
TrueDiv(a, b) == LET g == Gcd(a, b) IN [num |-> a \div g, den |-> b \div g]

\* stats[key] = value on a dict kept in insertion order.
DictSet(dict, key, value) ==
    IF \E i \in DOMAIN dict : dict[i].key = key
    THEN [i \in DOMAIN dict |->
            IF dict[i].key = key THEN [key |-> key, value |-> value] ELSE dict[i]]
    ELSE Append(dict, [key |-> key, value |-> value])

\* Attendees and creators of the statistics pipeline's events.
NameAnn == <<"A", "n", "n">>
Accepted(email) == [email |-> email, responseStatus |-> "accepted"]
Creator == [email |-> StrB1]

\* Attendee lists: the user and a colleague accepted; the user alone; the
\* user accepted under a display name; the user declined.
GroupAccepted == <<Accepted(StrA1), Accepted(StrB1)>>
OnlyUser == <<Accepted(StrA1)>>
UserNamed ==
    <<[email |-> StrA1, displayName |-> NameAnn, responseStatus |-> "accepted"],
      Accepted(StrB1)>>
UserDeclined == <<[email |-> StrA1, responseStatus |-> "declined"], Accepted(StrB1)>>

Meeting(summary, attendees, start, end) ==
    [summary |-> summary, creator |-> Creator, attendees |-> attendees,
     start |-> [dateTime |-> start], end |-> [dateTime |-> end]]

\* The events the calendar returns in the model. Mon/Tue/Wed are 1, 2 and 3
\* January 2024; FarEast starts on Tuesday 00:30 at UTC+14, which is
\* Monday 10:30 UTC.
Standup == Meeting("standup", GroupAccepted,
                   Stamp(2024, 1, 1, 10, 0, 0), Stamp(2024, 1, 1, 10, 30, 0))
Review == Meeting("review", GroupAccepted,
                  Stamp(2024, 1, 1, 11, 0, 0), Stamp(2024, 1, 1, 11, 45, 0))
Sync == Meeting("sync", GroupAccepted,
                Stamp(2024, 1, 2, 9, 0, 0), Stamp(2024, 1, 2, 9, 15, 0))
FarEast == Meeting("far east", GroupAccepted,
                   Stamp(2024, 1, 2, 0, 30, 840), Stamp(2024, 1, 2, 1, 0, 840))
Late == Meeting("late", GroupAccepted,
                Stamp(2024, 1, 2, 23, 30, 0), Stamp(2024, 1, 3, 0, 30, 0))
Ping == Meeting("ping", GroupAccepted,
                Stamp(2024, 1, 3, 9, 0, 0), <<2024, 1, 3, 9, 0, 1, 0>>)
Focus == Meeting("focus", OnlyUser,
                 Stamp(2024, 1, 1, 14, 0, 0), Stamp(2024, 1, 1, 15, 0, 0))
Named == Meeting("named", UserNamed,
                 Stamp(2024, 1, 2, 14, 0, 0), Stamp(2024, 1, 2, 15, 0, 0))
Skipped == Meeting("skipped", UserDeclined,
                   Stamp(2024, 1, 2, 16, 0, 0), Stamp(2024, 1, 2, 17, 0, 0))
Offsite == [summary |-> "offsite", creator |-> Creator, attendees |-> GroupAccepted,
            start |-> [date |-> <<2024, 1, 3>>], end |-> [date |-> <<2024, 1, 4>>]]

StatEvents == {Standup, Review, Sync, FarEast, Late, Ping, Focus, Named, Skipped, Offsite}

Elements(seq) == {seq[i] : i \in DOMAIN seq}

\* The attendees with responseStatus 'accepted'.
AcceptedOf(event) ==
    SelectSeq(event.attendees, LAMBDA a : Get(a, "responseStatus", None) = "accepted")

\* [a.get('displayName', a['email']) for a in ... if accepted]
AcceptedIdentities(event) ==
    LET acc == AcceptedOf(event)
    IN  [i \in DOMAIN acc |-> Get(acc[i], "displayName", acc[i].email)]

\* The exception one loop iteration raises for `event`, or "none":
\* a['email'] of an accepted attendee, event["start"], event['end'] (KeyError),
\* parser.parse(None) (TypeError).
IterationError(event, user_email) ==
    IF ~(Len(Get(event, "attendees", <<>>)) > 1) THEN "none"
    ELSE IF \E a \in Elements(AcceptedOf(event)) : "email" \notin DOMAIN a
    THEN "KeyError"
    ELSE IF user_email \notin Elements(AcceptedIdentities(event)) THEN "none"
    ELSE IF "start" \notin DOMAIN event THEN "KeyError"
    ELSE IF "dateTime" \notin DOMAIN event.start THEN "TypeError"
    ELSE IF "end" \notin DOMAIN event THEN "KeyError"
    ELSE IF "dateTime" \notin DOMAIN event.end THEN "TypeError"
    ELSE "none"

\* The two `if`s of the loop body: more than one attendee, and user_email
\* among the accepted attendees' display identities.
Counted(event, user_email) ==
    /\ Len(Get(event, "attendees", <<>>)) > 1
    /\ \A a \in Elements(AcceptedOf(event)) : "email" \in DOMAIN a
    /\ user_email \in Elements(AcceptedIdentities(event))

\* Mutant of AveragesRow: the averages are taken per meeting, not per day.
AveragesRowPerMeeting(total_time, total_count, ndays) ==
    [row |-> "Averages",
     time |-> TimedeltaStr(IntDiv(total_time, total_count)),
     count |-> TrueDiv(total_count, total_count)]

\* The 'Averages' row: timedelta(seconds=int(total_seconds / len(stats))) and
\* total_count / len(stats).
AveragesRow(total_time, total_count, ndays) ==
    [row |-> "Averages",
     time |-> TimedeltaStr(IntDiv(total_time, ndays)),
     count |-> TrueDiv(total_count, ndays)]

RECURSIVE SumTime(_)
SumTime(dict) == IF dict = <<>> THEN 0 ELSE Head(dict).value.time + SumTime(Tail(dict))

RECURSIVE SumCount(_)
SumCount(dict) == IF dict = <<>> THEN 0 ELSE Head(dict).value.count + SumCount(Tail(dict))

\* export_stats_to_csv: the rows written to stats.csv.
export_stats_to_csv(dict) ==
    LET header == [row |-> "header"]
        days   == [i \in DOMAIN dict |->
                      [row |-> "day", day |-> dict[i].key,
                       time |-> TimedeltaStr(dict[i].value.time),
                       count |-> dict[i].value.count]]
    IN  IF Len(dict) > 0
        THEN <<header>> \o days \o <<AveragesRow(SumTime(dict), SumCount(dict), Len(dict))>>
        ELSE <<header>> \o days

NotWritten == <<>>

InitStats ==
    /\ st_pc = "main"
    /\ st_events \in SeqsUpTo(StatEvents, MaxEvents)
    /\ st_user_email = StrA1
    /\ st_i = 1
    /\ count = 0
    /\ stats = <<>>
    /\ current = NoDate
    /\ cumulative_time = 0
    /\ current_count = 0
    /\ meetings_csv = NotWritten
    /\ stats_csv = NotWritten
    /\ st_error = "none"

IdleStats ==
    /\ st_pc = "idle"
    /\ st_events = <<>>
    /\ st_user_email = StrA1
    /\ st_i = 1
    /\ count = 0
    /\ stats = <<>>
    /\ current = NoDate
    /\ cumulative_time = 0
    /\ current_count = 0
    /\ meetings_csv = NotWritten
    /\ stats_csv = NotWritten
    /\ st_error = "none"

\* main: `if not events: print("No events found."); return`
NoEventsFound ==
    /\ st_pc = "main"
    /\ st_events = <<>>
    /\ st_pc' = "done"
    /\ UNCHANGED <<st_events, st_user_email, st_i, count, stats, current,
                   cumulative_time, current_count, meetings_csv, stats_csv, st_error>>
    /\ UNCHANGED stOthers

\* export_events_to_csv up to the loop: the file is opened, the header written.
BeginExport ==
    /\ st_pc = "main"
    /\ st_events # <<>>
    /\ st_pc' = "loop"
    /\ meetings_csv' = <<[row |-> "header"]>>
    /\ UNCHANGED <<st_events, st_user_email, st_i, count, stats, current,
                   cumulative_time, current_count, stats_csv, st_error>>
    /\ UNCHANGED stOthers

\* One iteration of `for event in events` for an event that is not counted.
SkipEvent ==
    /\ st_pc = "loop"
    /\ st_i <= Len(st_events)
    /\ IterationError(st_events[st_i], st_user_email) = "none"
    /\ ~Counted(st_events[st_i], st_user_email)
    /\ st_i' = st_i + 1
    /\ UNCHANGED <<st_pc, st_events, st_user_email, count, stats, current,
                   cumulative_time, current_count, meetings_csv, stats_csv, st_error>>
    /\ UNCHANGED stOthers

\* One iteration of `for event in events` for a counted event.
CountEvent ==
    /\ st_pc = "loop"
    /\ st_i <= Len(st_events)
    /\ IterationError(st_events[st_i], st_user_email) = "none"
    /\ Counted(st_events[st_i], st_user_email)
    /\ LET event     == st_events[st_i]
           attendees == AcceptedIdentities(event)
           start     == ParseDateTime(event.start.dateTime)
           end       == ParseDateTime(event.end.dateTime)
           duration  == TimeDiff(end, start)
           datestr   == DateStr(start)
       IN  /\ count' = count + 1
           /\ IF current = NoDate
              THEN /\ current' = datestr
                   /\ cumulative_time' = duration
                   /\ current_count' = current_count + 1
                   /\ stats' = stats
              ELSE IF current # datestr
              THEN /\ stats' = DictSet(stats, current,
                                       [time |-> cumulative_time, count |-> current_count])
                   /\ current' = datestr
                   /\ cumulative_time' = duration
                   /\ current_count' = 0 + 1
              ELSE /\ cumulative_time' = cumulative_time + duration
                   /\ current_count' = current_count + 1
                   /\ UNCHANGED <<current, stats>>
           /\ meetings_csv' = Append(meetings_csv,
                  [row |-> "meeting", date |-> datestr, summary |-> event.summary,
                   duration |-> TimedeltaStr(duration), categories |-> "TBD",
                   creator |-> Get(event.creator, "displayName", event.creator.email),
                   accepted_count |-> Len(attendees), accepted |-> attendees])
    /\ st_i' = st_i + 1
    /\ UNCHANGED <<st_pc, st_events, st_user_email, stats_csv, st_error>>
    /\ UNCHANGED stOthers

\* One iteration that raises: the exception leaves export_events_to_csv and
\* main; the meetings file keeps the rows written so far, stats.csv is not
\* written. `count += 1` precedes the parse of start and end.
FailOnEvent ==
    /\ st_pc = "loop"
    /\ st_i <= Len(st_events)
    /\ IterationError(st_events[st_i], st_user_email) # "none"
    /\ st_error' = IterationError(st_events[st_i], st_user_email)
    /\ count' = IF Counted(st_events[st_i], st_user_email) THEN count + 1 ELSE count
    /\ st_pc' = "failed"
    /\ UNCHANGED <<st_events, st_user_email, st_i, stats, current,
                   cumulative_time, current_count, meetings_csv, stats_csv>>
    /\ UNCHANGED stOthers

\* After the loop: the last day is sealed and export_stats_to_csv is called.
FinishExport ==
    /\ st_pc = "loop"
    /\ st_i > Len(st_events)
    /\ LET sealed == IF current # NoDate
                     THEN DictSet(stats, current,
                                  [time |-> cumulative_time, count |-> current_count])
                     ELSE stats
       IN  /\ stats' = sealed
           /\ stats_csv' = export_stats_to_csv(sealed)
    /\ st_pc' = "done"
    /\ UNCHANGED <<st_events, st_user_email, st_i, count, current,
                   cumulative_time, current_count, meetings_csv, st_error>>
    /\ UNCHANGED stOthers

NextStats ==
    \/ NoEventsFound
    \/ BeginExport
    \/ SkipEvent
    \/ CountEvent
    \/ FailOnEvent
    \/ FinishExport

(***************************************************************************)
(* Claims about the two get_date_range functions (checked under            *)
(* SpecMonthWindow and SpecDayWindow).                                     *)
(***************************************************************************)

\* The fields an ISO-8601 timestamp shows.
IsoYear(t) == t[1]
IsoMonth(t) == t[2]
IsoDay(t) == t[3]
IsoHour(t) == t[4]
IsoMinute(t) == t[5]
IsoSecond(t) == t[6]
IsoMicrosecond(t) == IF Len(t) = 8 THEN t[7] ELSE 0
IsoUtcOffset(t) == t[Len(t)]
IsoDate(t) == [year |-> t[1], month |-> t[2], day |-> t[3]]

MonthWindowReturned == mw_pc = "done" /\ mw_result.status = "returned"

\* C7: for all months >= 1 and every current month, the start month of the
\* returned month window is ((currentMonth - (months-1) - 1) mod 12) + 1, and
\* the start year is the current year minus one exactly when
\* currentMonth - (months-1) underflows past January, else the current year.
C7_StartMonthIsModularFormula ==
    MonthWindowReturned =>
        LET diff == mw_now.month - (mw_months - 1) IN
        /\ IsoMonth(mw_result.time_min) = ((diff - 1) % 12) + 1
        /\ IsoYear(mw_result.time_min) = IF diff < 1 THEN mw_now.year - 1 ELSE mw_now.year

\* C8: with offset = months-1, if offset > 0 and currentMonth <= offset the
\* start month is 12 - (offset - 1) in the previous year; if offset > 0 and
\* currentMonth > offset it is currentMonth - offset in the current year; if
\* offset = 0 it is the current month. The call returns a window whenever
\* that value is a month (January with months=3 starts 1 November of the
\* previous year; February or March with months=6 starts 1 August of the
\* previous year).
C8_StartMonthBranches ==
    LET offset == mw_months - 1
        cur    == mw_now.month
        month  == IF offset > 0 /\ cur <= offset THEN 12 - (offset - 1)
                  ELSE IF offset > 0 THEN cur - offset ELSE cur
        year   == IF offset > 0 /\ cur <= offset THEN mw_now.year - 1 ELSE mw_now.year
    IN  mw_pc = "done" =>
        /\ mw_result.status = "returned" <=> month \in 1..12
        /\ mw_result.status = "returned" =>
            /\ IsoMonth(mw_result.time_min) = month
            /\ IsoYear(mw_result.time_min) = year
            /\ IsoDay(mw_result.time_min) = 1
        /\ cur = 1 /\ mw_months = 3 =>
            IsoDate(mw_result.time_min) = [year |-> mw_now.year - 1, month |-> 11, day |-> 1]
        /\ cur \in {2, 3} /\ mw_months = 6 =>
            IsoDate(mw_result.time_min) = [year |-> mw_now.year - 1, month |-> 8, day |-> 1]

\* C8 witness: now in March, months = 6: the window starts 1 August of the
\* previous year.
C8_Witness ==
    /\ MonthWindowReturned
    /\ mw_now.month = 3 /\ mw_months = 6
    /\ IsoDate(mw_result.time_min) = [year |-> mw_now.year - 1, month |-> 8, day |-> 1]

\* The leap-year rule.
LeapYearRule(year) == (year % 4 = 0 /\ year % 100 # 0) \/ year % 400 = 0

\* C9: the returned month window ends at 23:59:59 on the last calendar day of
\* the current month (28, 29, 30 or 31: the day after it is the 1st; February
\* has 29 days exactly in leap years), starts at 00:00:00 on day 1 of the
\* start month, carries UTC offsets, and with months = 1 covers the current
\* month only.
C9_WindowEndsOnLastDayOfMonth ==
    MonthWindowReturned =>
        LET min == mw_result.time_min
            max == mw_result.time_max
        IN  /\ IsoYear(max) = mw_now.year /\ IsoMonth(max) = mw_now.month
            /\ IsoDay(max) \in 28..31
            /\ Ord2Ymd(Ymd2Ord(IsoYear(max), IsoMonth(max), 1) + IsoDay(max)).day = 1
            /\ mw_now.month = 2 => IsoDay(max) = IF LeapYearRule(mw_now.year) THEN 29 ELSE 28
            /\ mw_now.month \in {4, 6, 9, 11} => IsoDay(max) = 30
            /\ mw_now.month \in {1, 3, 5, 7, 8, 10, 12} => IsoDay(max) = 31
            /\ IsoHour(max) = 23 /\ IsoMinute(max) = 59 /\ IsoSecond(max) = 59
            /\ IsoDay(min) = 1
            /\ IsoHour(min) = 0 /\ IsoMinute(min) = 0 /\ IsoSecond(min) = 0
            /\ IsoUtcOffset(min) = 0 /\ IsoUtcOffset(max) = 0
            /\ mw_months = 1 =>
                IsoYear(min) = mw_now.year /\ IsoMonth(min) = mw_now.month

\* C9 witness: a one-month window in February of a leap year ends on the 29th.
C9_Witness ==
    /\ MonthWindowReturned
    /\ mw_months = 1 /\ mw_now.year = 2024 /\ mw_now.month = 2
    /\ IsoDay(mw_result.time_max) = 29
    /\ IsoMonth(mw_result.time_min) = 2

\* The length of a month, by the calendar's rule.
MonthLengthRule(year, month) ==
    CASE month = 2 -> IF LeapYearRule(year) THEN 29 ELSE 28
      [] month \in {4, 6, 9, 11} -> 30
      [] OTHER -> 31

\* The last day of the month before the month of a date.
EndOfPreviousMonth(date) ==
    IF date.month > 1
    THEN [year |-> date.year, month |-> date.month - 1,
          day |-> MonthLengthRule(date.year, date.month - 1)]
    ELSE [year |-> date.year - 1, month |-> 12, day |-> 31]

\* The date n calendar days before a date, counted back month by month.
RECURSIVE DaysBefore(_, _)
DaysBefore(date, n) ==
    IF n < date.day THEN [date EXCEPT !.day = date.day - n]
    ELSE DaysBefore(EndOfPreviousMonth(date), n - date.day)

\* Timestamps compared field by field, most significant first.
RECURSIVE FieldsLeq(_, _)
FieldsLeq(a, b) ==
    IF a = <<>> THEN TRUE
    ELSE IF Head(a) # Head(b) THEN Head(a) < Head(b)
    ELSE FieldsLeq(Tail(a), Tail(b))

IsoFields(t) ==
    <<IsoYear(t), IsoMonth(t), IsoDay(t), IsoHour(t), IsoMinute(t), IsoSecond(t),
      IsoMicrosecond(t)>>

C24_MonthWindowAlwaysReturned ==
    mw_pc = "done" =>
        /\ mw_result.status = "returned"
        /\ IsoMonth(mw_result.time_min) \in 1..12
        /\ FieldsLeq(IsoFields(mw_result.time_min), IsoFields(mw_result.time_max))

(***************************************************************************)
(* Claims about the statistics pipeline (checked under SpecStats).         *)
(***************************************************************************)

\* The qualifying events of the input, in input order.
QualifyingEvents == SelectSeq(st_events, LAMBDA e : Counted(e, st_user_email))

\* The date a dateTime string shows, in the string's own offset.
LocalDate(stamp) == <<stamp[1], stamp[2], stamp[3]>>

\* end - start of an event, in seconds.
DurationOf(event) ==
    TimeDiff(ParseDateTime(event.end.dateTime), ParseDateTime(event.start.dateTime))

\* The first event does not start after the second.
StartsNoLater(e1, e2) ==
    TimeDiff(ParseDateTime(e2.start.dateTime), ParseDateTime(e1.start.dateTime)) >= 0

\* Every qualifying event has dateTime start and end, and they are ordered
\* ascending by start instant.
QualifyingSortedByStart ==
    /\ \A i \in DOMAIN QualifyingEvents :
        /\ "dateTime" \in DOMAIN QualifyingEvents[i].start
        /\ "dateTime" \in DOMAIN QualifyingEvents[i].end
    /\ \A i, j \in DOMAIN QualifyingEvents :
        i < j => StartsNoLater(QualifyingEvents[i], QualifyingEvents[j])

QualifyingDates ==
    {LocalDate(QualifyingEvents[i].start.dateTime) : i \in DOMAIN QualifyingEvents}

ExportCompleted == st_pc = "done" /\ st_events # <<>>

\* C5: k qualifying events ordered ascending by start instant, whose start
\* dates (each in the event's own UTC offset) take d distinct values, yield
\* exactly d DailyStat entries, one per date, whose counts sum to k and whose
\* durations sum to the total of (end - start), the accumulator open at the
\* end of the stream included.
C5_SortedFoldOneStatPerDate ==
    ExportCompleted /\ QualifyingSortedByStart =>
        /\ Len(stats) = Cardinality(QualifyingDates)
        /\ {stats[i].key : i \in DOMAIN stats} = QualifyingDates
        /\ SumCount(stats) = Len(QualifyingEvents)
        /\ SumTime(stats) =
              SumSeq([i \in DOMAIN QualifyingEvents |-> DurationOf(QualifyingEvents[i])])

\* The seconds a printed timedelta stands for.
SecondsOf(t) == t.days * 86400 + t.hours * 3600 + t.minutes * 60 + t.seconds

AveragesRows == {i \in DOMAIN stats_csv : stats_csv[i].row = "Averages"}

DistinctDays == Cardinality({stats[i].key : i \in DOMAIN stats})

\* What C6 says apart from the value of the average duration: no stats file
\* without events; no Averages row without DailyStat entries; otherwise one
\* Averages row, the last, with average count = total count / distinct days.
AveragesRowShape ==
    /\ st_pc = "done" /\ st_events = <<>> => stats_csv = NotWritten
    /\ ExportCompleted /\ Len(stats) = 0 =>
        /\ AveragesRows = {}
        /\ stats_csv = <<[row |-> "header"]>>
    /\ ExportCompleted /\ Len(stats) > 0 =>
        /\ AveragesRows = {Len(stats_csv)}
        /\ Len(stats_csv) = Len(stats) + 2
        /\ LET avg == stats_csv[Len(stats_csv)].count IN
             avg.num * DistinctDays = avg.den * SumCount(stats)

\* The example of C6: 30m and 45m on one day and 15m on the next.
AveragesExample ==
    ExportCompleted /\ st_events = <<Standup, Review, Sync>> =>
        /\ stats = << [key |-> <<2024, 1, 1>>, value |-> [time |-> 75 * 60, count |-> 2]],
                      [key |-> <<2024, 1, 2>>, value |-> [time |-> 15 * 60, count |-> 1]] >>
        /\ stats_csv[4].count = [num |-> 3, den |-> 2]
        /\ stats_csv[4].time = [days |-> 0, hours |-> 0, minutes |-> 45, seconds |-> 0]

\* C6 as stated: the Averages row reports average count = total count /
\* distinct days and average duration = total duration / distinct days; no
\* Averages row, and no division by zero, when there is no DailyStat entry.
C6_Original_ExactAverages ==
    /\ AveragesRowShape
    /\ AveragesExample
    /\ ExportCompleted /\ Len(stats) > 0 =>
        SecondsOf(stats_csv[Len(stats_csv)].time) * DistinctDays = SumTime(stats)

\* C6 amended: as C6, with the average duration being total duration /
\* distinct days truncated to whole seconds.
C6_TruncatedAverages ==
    /\ AveragesRowShape
    /\ AveragesExample
    /\ ExportCompleted /\ Len(stats) > 0 =>
        LET avg == SecondsOf(stats_csv[Len(stats_csv)].time) IN
            /\ avg * DistinctDays <= SumTime(stats)
            /\ SumTime(stats) < (avg + 1) * DistinctDays

\* C6 witness: the example run, with averages 1.5 meetings and 45 minutes.
C6_Witness ==
    /\ ExportCompleted
    /\ st_events = <<Standup, Review, Sync>>
    /\ stats_csv[4] = [row |-> "Averages", count |-> [num |-> 3, den |-> 2],
                       time |-> [days |-> 0, hours |-> 0, minutes |-> 45, seconds |-> 0]]

\* Every DailyStat sealed so far is still in the result, exactly as sealed,
\* after the step.
SealedStaysSealed ==
    \A i \in DOMAIN stats : \E j \in DOMAIN stats' : stats'[j] = stats[i]

\* C22: for every input order, also when a start date reappears after a
\* different date has been seen, a DailyStat once sealed stays exactly as it
\* was sealed and nothing is lost: the counts in the result of a completed
\* export sum to the number of qualifying events.
C22_FoldNeverLosesEvents ==
    /\ [](ExportCompleted => SumCount(stats) = Len(QualifyingEvents))
    /\ [][SealedStaysSealed]_vars

(***************************************************************************)
(* sanitize_filename (wallaby/cli/download_notes.py).  A string is the     *)
(* sequence of its characters.                                             *)
(***************************************************************************)

\* Longest enumerated tail of an input of sanitize_filename.
MaxTail == 2

\* The length limit of sanitize_filename.
MaxFilenameLength == 200

\* The character class of the first re.sub: [<>:"/\\|?*]
InvalidChars == {"<", ">", ":", "\"", "/", "\\", "|", "?", "*"}

\* The character class of the second re.sub: [\r\n\t]
ControlChars == {"\r", "\n", "\t"}

\* The characters rstrip('. ') removes.
StripChars == {".", " "}

\* re.sub(r'[...]', repl, str) for a character class.
ReSub(class, repl, str) ==
    [i \in 1..Len(str) |-> IF str[i] \in class THEN repl ELSE str[i]]

\* if len(sanitized) > 200: sanitized = sanitized[:200]
Truncate(str) ==
    IF Len(str) > MaxFilenameLength THEN SubSeq(str, 1, MaxFilenameLength) ELSE str

\* str.rstrip(chars)
RStrip(str, chars) ==
    LET kept == {i \in 1..Len(str) : str[i] \notin chars}
        last == IF kept = {} THEN 0 ELSE CHOOSE i \in kept : \A j \in kept : j <= i
    IN  SubSeq(str, 1, last)

\* Variant: trailing dots and spaces are stripped before the cut.
sanitize_filename_strip_first(filename) ==
    Truncate(RStrip(ReSub(ControlChars, "_", ReSub(InvalidChars, "_", filename)), StripChars))

sanitize_filename(filename) ==
    LET sanitized1 == ReSub(InvalidChars, "_", filename)
        sanitized2 == ReSub(ControlChars, "_", sanitized1)
        sanitized3 == Truncate(sanitized2)
    IN  RStrip(sanitized3, StripChars)

\* n copies of the character c.
Repeat(c, n) == [i \in 1..n |-> c]

\* The characters the enumerated tails are made of.
SnChars == InvalidChars \cup ControlChars \cup StripChars \cup {"a", "_"}

\* 'Meeting: Q4/Review <Important>'
SnExample ==
    <<"M","e","e","t","i","n","g",":"," ","Q","4","/","R","e","v","i","e","w",
      " ","<","I","m","p","o","r","t","a","n","t",">">>

\* The arguments tried: a run of one character (of a length around the
\* limit, or empty) followed by every short tail, and the example title.
SnFilenames ==
    {Repeat(c, n) \o tail :
        c \in {"a", "."},
        n \in {0, MaxFilenameLength - 2, MaxFilenameLength - 1, MaxFilenameLength, 250},
        tail \in SeqsUpTo(SnChars, MaxTail)}
    \cup {SnExample}

InitSanitize ==
    /\ sn_pc = "call"
    /\ sn_filename \in SnFilenames
    /\ sn_result = <<>>

IdleSanitize ==
    /\ sn_pc = "idle"
    /\ sn_filename = <<>>
    /\ sn_result = <<>>

Sanitize ==
    /\ sn_pc = "call"
    /\ sn_result' = sanitize_filename(sn_filename)
    /\ sn_pc' = "done"
    /\ UNCHANGED sn_filename
    /\ UNCHANGED snOthers

NextSanitize == Sanitize

(***************************************************************************)
(* Claims about sanitize_filename (checked under SpecSanitize).            *)
(***************************************************************************)

\* The characters that must not survive.
Forbidden == {"<", ">", ":", "\"", "/", "\\", "|", "?", "*", "\r", "\n", "\t"}

\* str with each forbidden character replaced by '_', cut to its first 200.
ReplacedAndCut(str) ==
    LET n == IF Len(str) < 200 THEN Len(str) ELSE 200
    IN  [i \in 1..n |-> IF str[i] \in Forbidden THEN "_" ELSE str[i]]

\* r is cut without its trailing '.' and ' ' characters.
IsStripped(r, cut) ==
    /\ Len(r) <= Len(cut)
    /\ r = SubSeq(cut, 1, Len(r))
    /\ \A i \in (Len(r) + 1)..Len(cut) : cut[i] \in {".", " "}
    /\ r # <<>> => r[Len(r)] \notin {".", " "}

\* C11: sanitize_filename(s) is s with each of < > : " / \ | ? * CR LF TAB
\* replaced by '_', then cut to its first 200 characters, then stripped of
\* trailing '.' and ' '; so the result holds none of those characters, is at
\* most 200 long, never ends in '.' or ' ', and is empty for empty input.
C11_SanitizeFilename ==
    sn_pc = "done" =>
        /\ IsStripped(sn_result, ReplacedAndCut(sn_filename))
        /\ \A i \in 1..Len(sn_result) : sn_result[i] \notin Forbidden
        /\ Len(sn_result) <= 200
        /\ sn_result # <<>> => sn_result[Len(sn_result)] \notin {".", " "}
        /\ sn_filename = <<>> => sn_result = <<>>
        /\ sn_filename = SnExample =>
            sn_result = <<"M","e","e","t","i","n","g","_"," ","Q","4","_","R","e","v",
                          "i","e","w"," ","_","I","m","p","o","r","t","a","n","t","_">>
        /\ (Len(sn_filename) = 250 /\ \A i \in 1..250 : sn_filename[i] = "a")
            => Len(sn_result) = 200

\* C11 witness: a 201-character title whose cut ends in a dot, which the
\* strip then removes.
C11_Witness ==
    /\ sn_pc = "done"
    /\ sn_filename = Repeat("a", 199) \o <<".", "/">>
    /\ sn_result = Repeat("a", 199)

(***************************************************************************)
(* DriveClient.is_gemini_note (wallaby/drive_client.py).                   *)
(***************************************************************************)

\* 'application/vnd.google-apps.document' and two other MIME types.
GoogleDoc == "application/vnd.google-apps.document"
GoogleSheet == "application/vnd.google-apps.spreadsheet"
MimeTypes == {GoogleDoc, GoogleSheet, "application/pdf", ""}

\* gemini_indicators
NotesByGemini == <<"n","o","t","e","s"," ","b","y"," ","g","e","m","i","n","i">>
GeminiNotes == <<"g","e","m","i","n","i"," ","n","o","t","e","s">>
ByGemini == <<"b","y"," ","g","e","m","i","n","i">>
gemini_indicators == <<NotesByGemini, GeminiNotes, ByGemini>>

\* Titles of attachments.
TitleTeamSync == <<"T","e","a","m"," ","S","y","n","c"," ","-"," ","N","o","t","e","s"," ","b","y"," ","G","e","m","i","n","i">>
TitleBudget == <<"B","u","d","g","e","t",".","d","o","c","x">>
TitleShout == <<"Q","4",":"," ","G","E","M","I","N","I"," ","N","O","T","E","S"," ","(","d","r","a","f","t",")">>
TitleByGemini == <<"W","r","i","t","t","e","n"," ","B","y"," ","G","e","m","i","n","i">>
TitleNearMiss == <<"b","y"," ","g","e","m","i","n">>
TitleGemini == <<"G","e","m","i","n","i">>
TitleNoSpace == <<"b","y","g","e","m","i","n","i"," ","n","o","t","e","s","b","y"," ","g","e","m","i","n">>
TitleGeminiNotesLate == <<"g","e","m","i","n","i"," ","n","o","t","e">>
TitleNotesGemini == <<"n","o","t","e","s"," ","g","e","m","i","n","i"," ","b","y">>
AttachmentTitles ==
    {TitleTeamSync, TitleBudget, TitleShout, TitleByGemini, TitleNearMiss, TitleGemini,
     TitleNoSpace, TitleGeminiNotesLate, TitleNotesGemini, GeminiNotes, <<>>}

\* Attachment dicts: 'title', 'mimeType' and 'fileId' are each present or not.
GmAttachments ==
    [title : AttachmentTitles, mimeType : MimeTypes, fileId : {"f1"}]
    \cup [title : AttachmentTitles, mimeType : MimeTypes]
    \cup [title : AttachmentTitles, fileId : {"f1"}]
    \cup [mimeType : MimeTypes, fileId : {"f1"}]
    \cup [title : AttachmentTitles]
    \cup [mimeType : MimeTypes]
    \cup {[fileId |-> "f1"]}

\* `indicator in title` on strings.
StrIn(indicator, str) ==
    \E i \in 0..(Len(str) - Len(indicator)) :
        SubSeq(str, i + 1, i + Len(indicator)) = indicator

\* Variant: the MIME type is not looked at.
is_gemini_note_any_type(attachment) ==
    LET title == Lower(Get(attachment, "title", <<>>))
    IN  \E k \in DOMAIN gemini_indicators : StrIn(gemini_indicators[k], title)

is_gemini_note(attachment) ==
    LET title == Lower(Get(attachment, "title", <<>>))
        mime_type == Get(attachment, "mimeType", "")
        is_google_doc == mime_type = "application/vnd.google-apps.document"
        has_gemini_indicator ==
            \E k \in DOMAIN gemini_indicators : StrIn(gemini_indicators[k], title)
    IN  is_google_doc /\ has_gemini_indicator

InitGemini ==
    /\ gm_pc = "call"
    /\ gm_attachment \in GmAttachments
    /\ gm_result = FALSE

IdleGemini ==
    /\ gm_pc = "idle"
    /\ gm_attachment = [fileId |-> "f1"]
    /\ gm_result = FALSE

IsGeminiNote ==
    /\ gm_pc = "call"
    /\ gm_result' = is_gemini_note(gm_attachment)
    /\ gm_pc' = "done"
    /\ UNCHANGED gm_attachment
    /\ UNCHANGED gmOthers

NextGemini == IsGeminiNote

(***************************************************************************)
(* Claims about is_gemini_note (checked under SpecGemini).                 *)
(***************************************************************************)

\* phrase occurs in str at position k, letter case ignored.
OccursAt(phrase, str, k) ==
    /\ k + Len(phrase) - 1 <= Len(str)
    /\ \A j \in 1..Len(phrase) : UpperChar(str[k + j - 1]) = UpperChar(phrase[j])

\* The lower-cased title contains the phrase as a substring.
TitleContains(att, phrase) ==
    /\ "title" \in DOMAIN att
    /\ \E k \in 1..Len(att.title) : OccursAt(phrase, att.title, k)

\* C16: is_gemini_note(attachment) is true iff the mimeType is the Google
\* document type and the lower-cased title contains 'notes by gemini',
\* 'gemini notes' or 'by gemini'; a missing title or mimeType gives false.
C16_IsGeminiNote ==
    gm_pc = "done" =>
        /\ gm_result <=>
            /\ "mimeType" \in DOMAIN gm_attachment
            /\ gm_attachment.mimeType = "application/vnd.google-apps.document"
            /\ \/ TitleContains(gm_attachment, <<"n","o","t","e","s"," ","b","y"," ","g","e","m","i","n","i">>)
               \/ TitleContains(gm_attachment, <<"g","e","m","i","n","i"," ","n","o","t","e","s">>)
               \/ TitleContains(gm_attachment, <<"b","y"," ","g","e","m","i","n","i">>)
        /\ "title" \notin DOMAIN gm_attachment => ~gm_result
        /\ "mimeType" \notin DOMAIN gm_attachment => ~gm_result
        /\ gm_attachment = [title |-> TitleTeamSync, mimeType |-> GoogleDoc] => gm_result
        /\ gm_attachment = [title |-> TitleTeamSync, mimeType |-> GoogleSheet] => ~gm_result
        /\ gm_attachment = [title |-> TitleBudget, mimeType |-> GoogleDoc] => ~gm_result

\* C16 witness: a Google document whose title holds the phrase in capitals,
\* inside a longer title, is matched.
C16_Witness ==
    /\ gm_pc = "done"
    /\ gm_attachment = [title |-> TitleShout, mimeType |-> GoogleDoc, fileId |-> "f1"]
    /\ gm_result

(***************************************************************************)
(* save_events_as_native and download_gemini_notes                         *)
(* (wallaby/cli/download_notes.py): the archive pipeline.                  *)
(* A path below the output directory is <<outcome, date, file name>>; the  *)
(* file system is the set of its entries, each a path with its content.    *)
(***************************************************************************)

\* The longest list of events archived in one run.
MaxArchived == 2

\* str(n) for n >= 0.
RECURSIVE DecStr(_)
DecStr(n) ==
    LET digit == <<"0", "1", "2", "3", "4", "5", "6", "7", "8", "9">>[(n % 10) + 1]
    IN  IF n < 10 THEN <<digit>> ELSE Append(DecStr(n \div 10), digit)

\* str.rsplit('.', 1)
RSplitDot(str) ==
    LET dots == {i \in 1..Len(str) : str[i] = "."} IN
    IF dots = {} THEN <<str>>
    ELSE LET i == CHOOSE d \in dots : \A k \in dots : k <= d
         IN  <<SubSeq(str, 1, i - 1), SubSeq(str, i + 1, Len(str))>>

\* A Python value is a dict unless the model tags it with another type.
IsDict(value) == "pytype" \notin DOMAIN value

\* Variant: every value gets '.json'.
get_file_extension_json(event_data) == <<".","j","s","o","n">>

\* Lines 101-104.
get_file_extension(event_data) ==
    IF IsDict(event_data) THEN <<".","y","a","m","l">> ELSE <<".","j","s","o","n">>

\* format_event_data(event): the YAML document of a dict.
format_event_data(event) == [yaml |-> event]

\* Path.exists()
Exists(fs, path) == \E f \in fs : f.path = path

\* open(path, 'w') followed by write(content): the file is created or replaced.
WriteFile(fs, path, content) ==
    {f \in fs : f.path # path} \cup {[path |-> path, content |-> content]}

\* event_dir / name
Join(event_dir, name) == Append(event_dir, name)

\* Variant: the counter is put after the extension.
NewFilenameAppended(filename, counter) == filename \o <<"_">> \o DecStr(counter)

\* Lines 224-228: the file name tried for `counter`.
NewFilename(filename, counter) ==
    LET name_parts == RSplitDot(filename) IN
    IF Len(name_parts) = 2
    THEN name_parts[1] \o <<"_">> \o DecStr(counter) \o <<".">> \o name_parts[2]
    ELSE filename \o <<"_">> \o DecStr(counter)

\* The `while file_path.exists()` loop of save_events_as_native, entered
\* with file_path and counter.
RECURSIVE ResolveEventPath(_, _, _, _, _)
ResolveEventPath(fs, event_dir, filename, file_path, counter) ==
    IF ~Exists(fs, file_path) THEN file_path
    ELSE ResolveEventPath(fs, event_dir, filename,
                          Join(event_dir, NewFilename(filename, counter)), counter + 1)

\* Variant: the computed path is used whether or not it exists.
EventFilePathUnchecked(fs, event_dir, filename) == Join(event_dir, filename)

\* Lines 221-230: the path the event file is written to.
EventFilePath(fs, event_dir, filename) ==
    ResolveEventPath(fs, event_dir, filename, Join(event_dir, filename), 1)

\* The `while gemini_file_path.exists()` loop of download_gemini_notes.
RECURSIVE ResolveNotePath(_, _, _, _, _)
ResolveNotePath(fs, event_dir, safe_title, gemini_file_path, counter) ==
    IF ~Exists(fs, gemini_file_path) THEN gemini_file_path
    ELSE LET name_parts ==
                IF \E i \in 1..Len(safe_title) : safe_title[i] = "."
                THEN RSplitDot(safe_title) ELSE <<safe_title, <<>>>>
             new_name ==
                IF Len(name_parts) = 2
                THEN name_parts[1] \o <<"_">> \o DecStr(counter) \o <<".","t","x","t">>
                ELSE safe_title \o <<"_">> \o DecStr(counter) \o <<".","t","x","t">>
         IN  ResolveNotePath(fs, event_dir, safe_title, Join(event_dir, new_name),
                             counter + 1)

\* Lines 153-165: the path a note is downloaded to.
NotePath(fs, event_dir, title) ==
    LET safe_title == sanitize_filename(title)
    IN  ResolveNotePath(fs, event_dir, safe_title,
                        Join(event_dir, safe_title \o <<".","t","x","t">>), 1)

\* Variant: only a start.dateTime counts.
HasStartDateTimeOnly(event) ==
    "start" \in DOMAIN event /\ "dateTime" \in DOMAIN event.start

\* Lines 195-204: the event has a start date to parse, dateTime or date.
HasStartDate(event) ==
    /\ "start" \in DOMAIN event
    /\ \/ "dateTime" \in DOMAIN event.start
       \/ "date" \in DOMAIN event.start

\* parser.parse(...).date() of event['start']: dateTime first, else date.
EventDate(event) ==
    IF "dateTime" \in DOMAIN event.start
    THEN LET dt == ParseDateTime(event.start.dateTime) IN <<dt.year, dt.month, dt.day>>
    ELSE <<event.start.date[1], event.start.date[2], event.start.date[3]>>

\* '%04d' / '%02d'
ZeroPad(n, width) ==
    LET digits == DecStr(n) IN
    IF Len(digits) >= width THEN digits
    ELSE Repeat("0", width - Len(digits)) \o digits

\* event_date.strftime('%Y-%m-%d')
StrftimeYmd(date) ==
    ZeroPad(date[1], 4) \o <<"-">> \o ZeroPad(date[2], 2) \o <<"-">> \o ZeroPad(date[3], 2)

\* event.get('summary', 'Untitled Event')
UntitledEvent == <<"U","n","t","i","t","l","e","d"," ","E","v","e","n","t">>

\* Titles of archived events: 'a', 'a.' (sanitized to 'a'), 'a_1' and 'n'.
TitleA == <<"a">>
TitleADot == <<"a", ".">>
TitleA1 == <<"a", "_", "1">>
TitleN == <<"n">>

\* start.dateTime on 1 January 2024; on 2 January at UTC+14, which is still
\* 1 January in UTC; start.date of 1 January.
Jan1 == [dateTime |-> Stamp(2024, 1, 1, 10, 0, 0)]
Jan2FarEast == [dateTime |-> Stamp(2024, 1, 2, 0, 30, 840)]
Jan1AllDay == [date |-> <<2024, 1, 1>>]

\* Attachments: two matched notes with a fileId, a matched note without
\* one, a document that is no note.
NoteByGemini == [title |-> TitleByGemini, mimeType |-> GoogleDoc, fileId |-> "f1"]
NoteDotted == [title |-> <<"v",".","b","y"," ","g","e","m","i","n","i">>, mimeType |-> GoogleDoc, fileId |-> "f2"]
NoteNoFileId == [title |-> GeminiNotes, mimeType |-> GoogleDoc]
Budget == [title |-> TitleBudget, mimeType |-> GoogleDoc, fileId |-> "f3"]

\* The user's attendee entry, by response.
UserAccepted == <<Accepted(StrA1)>>
UserSaidNo == <<[email |-> StrA1, responseStatus |-> "declined"]>>

\* The events the archive pipeline is given: accepted ones with colliding
\* titles; an all-day event the user declined; an event without title and
\* attendees; two without a start date; two with attachments, one accepted
\* and one declined.
ArPlain == [summary |-> TitleA, start |-> Jan1, attendees |-> UserAccepted]
ArDot == [summary |-> TitleADot, start |-> Jan1, attendees |-> UserAccepted]
ArSuffix == [summary |-> TitleA1, start |-> Jan1, attendees |-> UserAccepted]
ArAllDay == [summary |-> TitleA, start |-> Jan1AllDay, attendees |-> UserSaidNo]
ArFarEast == [start |-> Jan2FarEast]
ArNoStart == [summary |-> TitleA, attendees |-> UserAccepted]
ArEmptyStart == [summary |-> TitleA, start |-> [timeZone |-> "UTC"],
                 attendees |-> UserAccepted]
ArNoted == [summary |-> TitleA, start |-> Jan1, attendees |-> UserAccepted,
            attachments |-> <<NoteByGemini, NoteByGemini>>]
ArMixed == [summary |-> TitleN, start |-> Jan1, attendees |-> UserSaidNo,
            attachments |-> <<NoteNoFileId, Budget, NoteDotted>>]

ArEvents ==
    {ArPlain, ArDot, ArSuffix, ArAllDay, ArFarEast, ArNoStart, ArEmptyStart,
     ArNoted, ArMixed}

\* What the output directory holds before the run: nothing; the file of an
\* earlier run; that file and its first successor; the successor alone; a
\* note of an earlier run.
AttendedJan1 == <<"attended", <<"2","0","2","4","-","0","1","-","0","1">>>>
OldFile(name) == [path |-> Join(AttendedJan1, name), content |-> [kind |-> "old"]]
ArTrees ==
    {{},
     {OldFile(<<"a",".","y","a","m","l">>)},
     {OldFile(<<"a",".","y","a","m","l">>), OldFile(<<"a","_","1",".","y","a","m","l">>)},
     {OldFile(<<"a","_","1",".","y","a","m","l">>)},
     {OldFile(<<"W","r","i","t","t","e","n"," ","B","y"," ","G","e","m","i","n","i",".","t","x","t">>)}}

\* The directories a set of files lies in.
DirsOf(fs) == {SubSeq(f.path, 1, 2) : f \in fs}

ZeroStats == [attended |-> 0, rejected |-> 0, unacknowledged |-> 0]

NoSummary == [printed |-> FALSE]

InitArchive ==
    /\ ar_pc = "loop"
    /\ ar_events \in SeqsUpTo(ArEvents, MaxArchived)
    /\ ar_user_email \in {StrA2}
    /\ ar_drive \in BOOLEAN
    /\ ar_tree \in ArTrees
    /\ ar_fs = ar_tree
    /\ ar_dirs = DirsOf(ar_tree)
    /\ ar_i = 1
    /\ ar_j = 0
    /\ ar_stats = ZeroStats
    /\ gemini_stats = ZeroStats
    /\ ar_status = NoOutcome
    /\ ar_event_dir = <<>>
    /\ gemini_notes_downloaded = 0
    /\ ar_writes = <<>>
    /\ ar_summary = NoSummary
    /\ ar_error = None

IdleArchive ==
    /\ ar_pc = "idle"
    /\ ar_events = <<>>
    /\ ar_user_email = StrA1
    /\ ar_drive = FALSE
    /\ ar_tree = {}
    /\ ar_fs = {}
    /\ ar_dirs = {}
    /\ ar_i = 1
    /\ ar_j = 0
    /\ ar_stats = ZeroStats
    /\ gemini_stats = ZeroStats
    /\ ar_status = NoOutcome
    /\ ar_event_dir = <<>>
    /\ gemini_notes_downloaded = 0
    /\ ar_writes = <<>>
    /\ ar_summary = NoSummary
    /\ ar_error = None

\* Variant: the count goes up by one whatever n is.
AddStatOne(st, key, n) == [st EXCEPT ![key] = @ + 1]

\* stats[attendance_status] += n
AddStat(st, key, n) == [st EXCEPT ![key] = @ + n]

\* The event of the current loop iteration and its attachments.
ArEvent == ar_events[ar_i]
ArAttachments == Get(ArEvent, "attachments", <<>>)
ArAttachment == ArAttachments[ar_j]

\* Lines 207-221 for `event`: attendance status, directory and file name.
EventStatus(event) == get_attendance_status(event, ar_user_email)
EventDir(event) == <<EventStatus(event), StrftimeYmd(EventDate(event))>>
EventFilename(event) ==
    sanitize_filename(Get(event, "summary", UntitledEvent)) \o get_file_extension(event)

\* Variant: the event passed over is counted as unacknowledged.
SkipWithoutStartCounted ==
    /\ ar_pc = "loop"
    /\ ar_i <= Len(ar_events)
    /\ ~HasStartDate(ArEvent)
    /\ ar_i' = ar_i + 1
    /\ ar_stats' = AddStat(ar_stats, "unacknowledged", 1)
    /\ UNCHANGED <<ar_pc, ar_events, ar_user_email, ar_drive, ar_tree, ar_fs, ar_dirs,
                   ar_j, gemini_stats, ar_status, ar_event_dir,
                   gemini_notes_downloaded, ar_writes, ar_summary, ar_error>>
    /\ UNCHANGED arOthers

\* Lines 195-204: an event without a start date is passed over.
SkipWithoutStart ==
    /\ ar_pc = "loop"
    /\ ar_i <= Len(ar_events)
    /\ ~HasStartDate(ArEvent)
    /\ ar_i' = ar_i + 1
    /\ UNCHANGED <<ar_pc, ar_events, ar_user_email, ar_drive, ar_tree, ar_fs, ar_dirs,
                   ar_j, ar_stats, gemini_stats, ar_status, ar_event_dir,
                   gemini_notes_downloaded, ar_writes, ar_summary, ar_error>>
    /\ UNCHANGED arOthers

\* Lines 207-242: the event is counted, its directory made and its file
\* written; with a drive client its attachments come next.
SaveEvent ==
    /\ ar_pc = "loop"
    /\ ar_i <= Len(ar_events)
    /\ HasStartDate(ArEvent)
    /\ LET status == EventStatus(ArEvent)
           event_dir == EventDir(ArEvent)
           file_path == EventFilePath(ar_fs, event_dir, EventFilename(ArEvent))
       IN  /\ ar_stats' = AddStat(ar_stats, status, 1)
           /\ ar_dirs' = ar_dirs \cup {event_dir}
           /\ ar_fs' = WriteFile(ar_fs, file_path, format_event_data(ArEvent))
           /\ ar_writes' = Append(ar_writes,
                [kind |-> "event", event |-> ar_i, path |-> file_path,
                 existed |-> Exists(ar_fs, file_path), created |-> TRUE])
           /\ ar_status' = status
           /\ ar_event_dir' = event_dir
    /\ gemini_notes_downloaded' = 0
    /\ IF ar_drive
       THEN ar_pc' = "notes" /\ ar_j' = 1 /\ ar_i' = ar_i
       ELSE ar_pc' = "loop" /\ ar_j' = ar_j /\ ar_i' = ar_i + 1
    /\ UNCHANGED <<ar_events, ar_user_email, ar_drive, ar_tree, gemini_stats,
                   ar_summary, ar_error>>
    /\ UNCHANGED arOthers

\* Lines 234-235 raise: open() fails and leaves nothing, or write() fails
\* and leaves the file it opened. Nothing catches the exception.
SaveEventFails ==
    /\ ar_pc = "loop"
    /\ ar_i <= Len(ar_events)
    /\ HasStartDate(ArEvent)
    /\ \E opened \in BOOLEAN :
        LET status == EventStatus(ArEvent)
            event_dir == EventDir(ArEvent)
            file_path == EventFilePath(ar_fs, event_dir, EventFilename(ArEvent))
        IN  /\ ar_stats' = AddStat(ar_stats, status, 1)
            /\ ar_dirs' = ar_dirs \cup {event_dir}
            /\ ar_fs' = IF opened THEN WriteFile(ar_fs, file_path, [kind |-> "partial"]) ELSE ar_fs
            /\ ar_writes' = Append(ar_writes,
                 [kind |-> "event_failed", event |-> ar_i, path |-> file_path,
                  existed |-> Exists(ar_fs, file_path), created |-> opened])
            /\ ar_status' = status
            /\ ar_event_dir' = event_dir
    /\ ar_pc' = "failed"
    /\ ar_error' = "OSError"
    /\ UNCHANGED <<ar_events, ar_user_email, ar_drive, ar_tree, ar_i, ar_j,
                   gemini_stats, gemini_notes_downloaded, ar_summary>>
    /\ UNCHANGED arOthers

\* Line 144: an attachment that is no Gemini note.
SkipAttachment ==
    /\ ar_pc = "notes"
    /\ ar_j <= Len(ArAttachments)
    /\ ~is_gemini_note(ArAttachment)
    /\ ar_j' = ar_j + 1
    /\ UNCHANGED <<ar_pc, ar_events, ar_user_email, ar_drive, ar_tree, ar_fs, ar_dirs,
                   ar_i, ar_stats, gemini_stats, ar_status, ar_event_dir,
                   gemini_notes_downloaded, ar_writes, ar_summary, ar_error>>
    /\ UNCHANGED arOthers

\* Lines 148-150: a Gemini note without fileId is warned about.
WarnMissingFileId ==
    /\ ar_pc = "notes"
    /\ ar_j <= Len(ArAttachments)
    /\ is_gemini_note(ArAttachment)
    /\ "fileId" \notin DOMAIN ArAttachment
    /\ ar_j' = ar_j + 1
    /\ UNCHANGED <<ar_pc, ar_events, ar_user_email, ar_drive, ar_tree, ar_fs, ar_dirs,
                   ar_i, ar_stats, gemini_stats, ar_status, ar_event_dir,
                   gemini_notes_downloaded, ar_writes, ar_summary, ar_error>>
    /\ UNCHANGED arOthers

\* Lines 153-171: the note is downloaded to the path resolved for it.
DownloadNote ==
    /\ ar_pc = "notes"
    /\ ar_j <= Len(ArAttachments)
    /\ is_gemini_note(ArAttachment)
    /\ "fileId" \in DOMAIN ArAttachment
    /\ LET title == Get(ArAttachment, "title", <<>>)
           gemini_file_path == NotePath(ar_fs, ar_event_dir, title)
       IN  /\ ar_fs' = WriteFile(ar_fs, gemini_file_path, [text |-> ArAttachment.fileId])
           /\ ar_writes' = Append(ar_writes,
                [kind |-> "note", event |-> ar_i, path |-> gemini_file_path,
                 existed |-> Exists(ar_fs, gemini_file_path), created |-> TRUE])
    /\ gemini_notes_downloaded' = gemini_notes_downloaded + 1
    /\ ar_j' = ar_j + 1
    /\ UNCHANGED <<ar_pc, ar_events, ar_user_email, ar_drive, ar_tree, ar_dirs, ar_i,
                   ar_stats, gemini_stats, ar_status, ar_event_dir, ar_summary, ar_error>>
    /\ UNCHANGED arOthers

\* Lines 168-173 with download_document_as_text returning False: it failed
\* before opening the output file, or after (drive_client.py lines 49-63).
DownloadNoteFails ==
    /\ ar_pc = "notes"
    /\ ar_j <= Len(ArAttachments)
    /\ is_gemini_note(ArAttachment)
    /\ "fileId" \in DOMAIN ArAttachment
    /\ \E opened \in BOOLEAN :
        LET title == Get(ArAttachment, "title", <<>>)
            gemini_file_path == NotePath(ar_fs, ar_event_dir, title)
        IN  /\ ar_fs' = IF opened THEN WriteFile(ar_fs, gemini_file_path, [kind |-> "partial"])
                        ELSE ar_fs
            /\ ar_writes' = Append(ar_writes,
                 [kind |-> "note_failed", event |-> ar_i, path |-> gemini_file_path,
                  existed |-> Exists(ar_fs, gemini_file_path), created |-> opened])
    /\ ar_j' = ar_j + 1
    /\ UNCHANGED <<ar_pc, ar_events, ar_user_email, ar_drive, ar_tree, ar_dirs, ar_i,
                   ar_stats, gemini_stats, ar_status, ar_event_dir,
                   gemini_notes_downloaded, ar_summary, ar_error>>
    /\ UNCHANGED arOthers

\* Lines 175, 241-242: download_gemini_notes returns its count.
FinishNotes ==
    /\ ar_pc = "notes"
    /\ ar_j > Len(ArAttachments)
    /\ gemini_stats' = AddStat(gemini_stats, ar_status, gemini_notes_downloaded)
    /\ ar_i' = ar_i + 1
    /\ ar_pc' = "loop"
    /\ UNCHANGED <<ar_events, ar_user_email, ar_drive, ar_tree, ar_fs, ar_dirs, ar_j,
                   ar_stats, ar_status, ar_event_dir, gemini_notes_downloaded,
                   ar_writes, ar_summary, ar_error>>
    /\ UNCHANGED arOthers

\* sum(stats.values())
StatsTotal(st) == st.attended + st.rejected + st.unacknowledged

\* Lines 245-258: the summary.
PrintSummary ==
    /\ ar_pc = "loop"
    /\ ar_i > Len(ar_events)
    /\ ar_summary' =
        [printed |-> TRUE,
         attended |-> ar_stats.attended,
         rejected |-> ar_stats.rejected,
         unacknowledged |-> ar_stats.unacknowledged,
         total |-> StatsTotal(ar_stats),
         notes |-> IF ar_drive /\ StatsTotal(gemini_stats) > 0
                   THEN [printed |-> TRUE,
                         attended |-> gemini_stats.attended,
                         rejected |-> gemini_stats.rejected,
                         unacknowledged |-> gemini_stats.unacknowledged,
                         total |-> StatsTotal(gemini_stats)]
                   ELSE [printed |-> FALSE]]
    /\ ar_pc' = "done"
    /\ UNCHANGED <<ar_events, ar_user_email, ar_drive, ar_tree, ar_fs, ar_dirs, ar_i,
                   ar_j, ar_stats, gemini_stats, ar_status, ar_event_dir,
                   gemini_notes_downloaded, ar_writes, ar_error>>
    /\ UNCHANGED arOthers

NextArchive ==
    \/ SkipWithoutStart
    \/ SaveEvent
    \/ SaveEventFails
    \/ SkipAttachment
    \/ WarnMissingFileId
    \/ DownloadNote
    \/ DownloadNoteFails
    \/ FinishNotes
    \/ PrintSummary

(***************************************************************************)
(* Claims about the archive pipeline (checked under SpecArchive).          *)
(***************************************************************************)

\* The positions in ar_writes of the event files written.
EventWrites == {k \in 1..Len(ar_writes) : ar_writes[k].kind = "event"}

\* The paths that existed just before the k-th write: those of the initial
\* tree and those created by the writes before it.
PathsBefore(k) ==
    {f.path : f \in ar_tree}
    \cup {ar_writes[m].path : m \in {n \in 1..(k - 1) : ar_writes[n].created}}

\* The events of the list that have a start with a dateTime or a date.
Archivable ==
    {i \in 1..Len(ar_events) :
        /\ "start" \in DOMAIN ar_events[i]
        /\ DOMAIN ar_events[i].start \cap {"dateTime", "date"} # {}}

\* C12: an event file is only ever written to a path that did not exist
\* immediately before the write; no pre-existing file and no file written
\* earlier in the run is overwritten or modified; an existing path is never
\* an error (the event is still saved, under another name).
C12_NeverOverwrites ==
    /\ \A k \in 1..Len(ar_writes) :
        /\ ~ar_writes[k].existed
        /\ ar_writes[k].path \notin PathsBefore(k)
    /\ ar_tree \subseteq ar_fs
    /\ \A k \in EventWrites :
        [path |-> ar_writes[k].path,
         content |-> [yaml |-> ar_events[ar_writes[k].event]]] \in ar_fs
    /\ ar_error \notin {"FileExistsError"}
    /\ (ar_pc = "loop" /\ ar_i \in Archivable) =>
        ~Exists(ar_fs, EventFilePath(ar_fs, EventDir(ArEvent), EventFilename(ArEvent)))

\* C12 witness: the directory held a.yaml and a_1.yaml; two events titled
\* 'a' and 'a.' were saved beside them.
C12_Witness ==
    /\ ar_pc = "done"
    /\ ar_tree = {OldFile(<<"a",".","y","a","m","l">>), OldFile(<<"a","_","1",".","y","a","m","l">>)}
    /\ ar_events = <<ArPlain, ArDot>>
    /\ {ar_writes[k].path : k \in EventWrites}
        = {Join(AttendedJan1, <<"a","_","2",".","y","a","m","l">>), Join(AttendedJan1, <<"a","_","3",".","y","a","m","l">>)}
    /\ Cardinality(ar_fs) = 4

\* base.ext for n = 0, base_<n>.ext for n >= 1.
Candidate(base, ext, n) ==
    IF n = 0 THEN base \o ext
    ELSE base \o <<"_">> \o <<(<<"1", "2", "3", "4", "5", "6", "7", "8", "9">>)[n]>> \o ext

\* The sanitized title of the event of the k-th write.
BaseOf(k) ==
    LET event == ar_events[ar_writes[k].event]
    IN  sanitize_filename(IF "summary" \in DOMAIN event THEN event.summary
                          ELSE UntitledEvent)

\* The k-th write went to the candidate with the smallest free n.
SmallestFree(k, base, ext) ==
    \E n \in 0..9 :
        /\ ar_writes[k].path = Append(SubSeq(ar_writes[k].path, 1, 2), Candidate(base, ext, n))
        /\ \A m \in 0..(n - 1) :
            Append(SubSeq(ar_writes[k].path, 1, 2), Candidate(base, ext, m)) \in PathsBefore(k)

\* The event writes with the same directory and base as the k-th, up to it.
SameBaseUpTo(k) ==
    {m \in EventWrites :
        /\ m <= k
        /\ SubSeq(ar_writes[m].path, 1, 2) = SubSeq(ar_writes[k].path, 1, 2)
        /\ BaseOf(m) = BaseOf(k)}

\* Before the k-th write its directory held base.ext or base_<n>.ext only
\* as files of events with the same base written in this run.
OnlySameBaseBefore(k) ==
    \A n \in 0..9 :
        LET p == Append(SubSeq(ar_writes[k].path, 1, 2), Candidate(BaseOf(k), <<".","y","a","m","l">>, n))
        IN  p \in PathsBefore(k) =>
                \E m \in SameBaseUpTo(k) : m < k /\ ar_writes[m].path = p

NewFiles == {f \in ar_fs : f.path \notin {g.path : g \in ar_tree}}

\* The new files that are event files.
NewEventFiles == {f \in NewFiles : f.content \in {[yaml |-> ar_events[i]] : i \in Archivable}}

\* C14: a completed run creates exactly one new event file for each event
\* with a start dateTime or date, whatever the output tree held before,
\* and the per-outcome counts of the summary sum to the number of event
\* files created.
C14_OneFilePerEvent ==
    ar_pc = "done" =>
        /\ \A i \in Archivable :
            Cardinality({k \in EventWrites : ar_writes[k].event = i}) = 1
        /\ \A k \in EventWrites : ar_writes[k].event \in Archivable
        /\ Cardinality(NewEventFiles) = Cardinality(Archivable)
        /\ \A k \in EventWrites : ar_writes[k].path \notin {g.path : g \in ar_tree}
        /\ ar_summary.printed
        /\ ar_summary.attended + ar_summary.rejected + ar_summary.unacknowledged
            = Cardinality(NewEventFiles)
        /\ ar_summary.total = Cardinality(NewEventFiles)

\* C14 witness: the run is repeated on an event whose file a.yaml is there
\* from the earlier run; a second file a_1.yaml is added.
C14_Witness ==
    /\ ar_pc = "done"
    /\ ar_tree = {OldFile(<<"a",".","y","a","m","l">>)}
    /\ ar_events = <<ArPlain>>
    /\ {f.path : f \in NewFiles} = {Join(AttendedJan1, <<"a","_","1",".","y","a","m","l">>)}
    /\ ar_summary.attended = 1

\* The number a string of decimal digits writes.
RECURSIVE DigitsValue(_)
DigitsValue(digits) ==
    IF digits = <<>> THEN 0
    ELSE DigitsValue(SubSeq(digits, 1, Len(digits) - 1)) * 10
         + (CHOOSE v \in 0..9 :
                <<"0", "1", "2", "3", "4", "5", "6", "7", "8", "9">>[v + 1]
                    = digits[Len(digits)])

\* str is YYYY-MM-DD for the given year, month and day.
IsYmd(str, year, month, day) ==
    /\ Len(str) = 10
    /\ str[5] = "-" /\ str[8] = "-"
    /\ \A i \in {1, 2, 3, 4, 6, 7, 9, 10} :
        str[i] \in {"0", "1", "2", "3", "4", "5", "6", "7", "8", "9"}
    /\ DigitsValue(SubSeq(str, 1, 4)) = year
    /\ DigitsValue(SubSeq(str, 6, 7)) = month
    /\ DigitsValue(SubSeq(str, 9, 10)) = day

\* The start date of an event: that of start.dateTime when present, else
\* the date-only start.date.
StartDateOf(event) ==
    IF "dateTime" \in DOMAIN event.start THEN event.start.dateTime ELSE event.start.date

\* Python values that are not dicts.
NonDicts == {[pytype |-> "list"], [pytype |-> "str"], [pytype |-> "NoneType"]}

\* C15: every event file is written in the directory <root>/<outcome>/<date>
\* with outcome = get_attendance_status(event, user_email) and date the
\* event's start date as YYYY-MM-DD (from start.dateTime when present, else
\* from start.date); its name is sanitize(title) plus '.yaml' for a
\* structured record ('.json' otherwise), up to the collision suffix.
C15_ArchivePath ==
    /\ \A k \in EventWrites :
        LET event == ar_events[ar_writes[k].event]
            path == ar_writes[k].path
            date == StartDateOf(event)
        IN  /\ Len(path) = 3
            /\ path[1] = get_attendance_status(event, ar_user_email)
            /\ path[1] \in {"attended", "rejected", "unacknowledged"}
            /\ IsYmd(path[2], date[1], date[2], date[3])
            /\ <<path[1], path[2]>> \in ar_dirs
            /\ \E n \in 0..9 : path[3] = Candidate(BaseOf(k), <<".","y","a","m","l">>, n)
    /\ \A event \in ArEvents : get_file_extension(event) = <<".","y","a","m","l">>
    /\ \A value \in NonDicts : get_file_extension(value) = <<".","j","s","o","n">>

\* C15 witness: the untitled event without attendees that starts on
\* 2 January at UTC+14 and the all-day event of 1 January that the user,
\* configured as 'A@x', declined as 'a@x' are filed under
\* unacknowledged/2024-01-02 and rejected/2024-01-01.
C15_Witness ==
    /\ ar_pc = "done"
    /\ ar_user_email = StrA2
    /\ ar_events = <<ArFarEast, ArAllDay>>
    /\ ar_tree = {}
    /\ {f.path : f \in ar_fs}
        = {<<"unacknowledged", <<"2","0","2","4","-","0","1","-","0","2">>, <<"U","n","t","i","t","l","e","d"," ","E","v","e","n","t",".","y","a","m","l">>>>,
           <<"rejected", <<"2","0","2","4","-","0","1","-","0","1">>, <<"a",".","y","a","m","l">>>>}

\* The events with a start date, in list order.
ArchivableEvents ==
    SelectSeq(ar_events,
              LAMBDA ev : "start" \in DOMAIN ev
                          /\ DOMAIN ev.start \cap {"dateTime", "date"} # {})

\* What save_events_as_native leaves of a list of events that all have a
\* start date, without a drive client: the files, and the counts.
RECURSIVE FilesAfter(_, _)
FilesAfter(evs, fs) ==
    IF evs = <<>> THEN fs
    ELSE LET ev == Head(evs)
             path == EventFilePath(fs, EventDir(ev), EventFilename(ev))
         IN  FilesAfter(Tail(evs), WriteFile(fs, path, format_event_data(ev)))

RECURSIVE CountsAfter(_, _)
CountsAfter(evs, st) ==
    IF evs = <<>> THEN st
    ELSE CountsAfter(Tail(evs), AddStat(st, EventStatus(Head(evs)), 1))

\* The run has reached an event without a start date.
AtEventWithoutStart ==
    /\ ar_pc = "loop"
    /\ ar_i <= Len(ar_events)
    /\ ar_i \notin Archivable

\* A step from an event without a start date creates no file and no
\* directory, counts nothing, prints nothing and goes on with the next event.
SkipsSilently ==
    AtEventWithoutStart =>
        /\ ar_fs' = ar_fs
        /\ ar_dirs' = ar_dirs
        /\ ar_stats' = ar_stats
        /\ gemini_stats' = gemini_stats
        /\ ar_writes' = ar_writes
        /\ ar_error' = ar_error
        /\ ar_pc' = "loop"
        /\ ar_i' = ar_i + 1

\* A run without downloads ends as the run on the list without the events
\* that have no start date.
AsIfAbsent ==
    (ar_pc = "done" /\ (~ar_drive \/ \A i \in 1..Len(ar_events) :
                                        "attachments" \notin DOMAIN ar_events[i])) =>
        /\ ar_fs = FilesAfter(ArchivableEvents, ar_tree)
        /\ ar_stats = CountsAfter(ArchivableEvents, ZeroStats)
        /\ ar_dirs = DirsOf(ar_fs)
        /\ ar_summary.total = Len(ArchivableEvents)

\* C19: an event with no 'start', or whose start has neither dateTime nor
\* date, is skipped silently: no directory or file is created for it, it is
\* in no outcome count, and the other events are archived exactly as if it
\* were absent.
C19_SkipsEventsWithoutStart == []AsIfAbsent /\ [][SkipsSilently]_vars

\* C19 witness: a start without dateTime or date, then an ordinary event:
\* the run ends with the second event's file alone, counted once.
C19_Witness ==
    /\ ar_pc = "done"
    /\ ar_events = <<ArEmptyStart, ArPlain>>
    /\ ar_tree = {}
    /\ {f.path : f \in ar_fs} = {Join(AttendedJan1, <<"a",".","y","a","m","l">>)}
    /\ ar_dirs = {AttendedJan1}
    /\ ar_summary.attended = 1 /\ ar_summary.total = 1

\* The name <safe_title>.txt for n = 0 and <safe_title>_<n>.txt for n >= 1.
NoteCandidate(safe_title, n) ==
    IF n = 0 THEN safe_title \o <<".","t","x","t">>
    ELSE safe_title \o <<"_">> \o DecStr(n) \o <<".","t","x","t">>

\* A step of download_gemini_notes in which a path was resolved for a note.
NotePathResolved == ar_pc = "notes" /\ Len(ar_writes') = Len(ar_writes) + 1

\* The path resolved in this step is free, and is the first free one of
\* <safe_title>.txt, <safe_title>_1.txt, <safe_title>_2.txt, ...
NoteGoesToSmallestFree ==
    NotePathResolved =>
        LET path == ar_writes'[Len(ar_writes')].path
            safe_title == sanitize_filename(ArAttachment.title)
        IN  /\ ~Exists(ar_fs, path)
            /\ \E n \in 0..Cardinality(ar_fs) :
                /\ path = Join(ar_event_dir, NoteCandidate(safe_title, n))
                /\ \A m \in 0..(n - 1) :
                      Exists(ar_fs, Join(ar_event_dir, NoteCandidate(safe_title, m)))

\* C25: when a matched note's target <sanitized title>.txt already exists,
\* the note goes to <sanitized title>_<n>.txt for the smallest n >= 1 whose
\* path is free, for every sanitized title, titles containing a '.' included,
\* and no existing file is overwritten.
C25_NoteCollisionSuffixes == [][NoteGoesToSmallestFree]_vars

\* The positions in ar_writes of the notes downloaded, and of all notes a
\* download was started for.
NoteWrites == {k \in 1..Len(ar_writes) : ar_writes[k].kind = "note"}
NoteAttempts == {k \in 1..Len(ar_writes) : ar_writes[k].kind \in {"note", "note_failed"}}

\* The attachments of an event that is_gemini_note matches and that carry a
\* fileId.
NotesToDownload(event) ==
    LET attachments == Get(event, "attachments", <<>>) IN
    {j \in DOMAIN attachments :
        is_gemini_note(attachments[j]) /\ "fileId" \in DOMAIN attachments[j]}

\* The notes downloaded for events of one outcome.
NotesDownloadedFor(outcome) ==
    {k \in NoteWrites : EventStatus(ar_events[ar_writes[k].event]) = outcome}

\* The notes counts the summary reports: none are printed when all are 0.
ReportedNotes(outcome) ==
    IF ar_summary.notes.printed THEN ar_summary.notes[outcome] ELSE 0

\* C26: for each outcome the notes count reported at the end of a run is the
\* number of attachments, over the archived events of that outcome, that
\* is_gemini_note matched, that carry a fileId and whose download succeeded;
\* every such note lies in the directory of its event's file; a matched
\* attachment without fileId or with a failed download is not counted and
\* does not stop the run; without a drive client nothing is downloaded.
C26_NotesCounts ==
    /\ ar_pc = "done" =>
        /\ \A outcome \in AttendanceOutcomes :
              ReportedNotes(outcome) = Cardinality(NotesDownloadedFor(outcome))
        /\ \A i \in Archivable :
              Cardinality({k \in NoteAttempts : ar_writes[k].event = i}) =
                  IF ar_drive THEN Cardinality(NotesToDownload(ar_events[i])) ELSE 0
    /\ \A k \in NoteAttempts :
          \E m \in EventWrites :
              /\ m < k
              /\ ar_writes[m].event = ar_writes[k].event
              /\ SubSeq(ar_writes[m].path, 1, 2) = SubSeq(ar_writes[k].path, 1, 2)
    /\ ar_pc = "failed" => ar_writes[Len(ar_writes)].kind = "event_failed"
    /\ ~ar_drive => NoteAttempts = {}

\* C26 witness: a run with a drive client ended with one note reported for
\* each of two outcomes, after a note without fileId was passed over and a
\* download failed.
C26_Witness ==
    /\ ar_pc = "done"
    /\ ar_events = <<ArMixed, ArNoted>>
    /\ \E k \in NoteAttempts : ar_writes[k].kind = "note_failed"
    /\ ar_summary.notes.printed
    /\ ar_summary.notes.rejected = 1
    /\ ar_summary.notes.attended = 1

\* The positions in ar_writes of the event files whose writing failed.
FailedEventWrites == {k \in 1..Len(ar_writes) : ar_writes[k].kind = "event_failed"}

\* The run has ended: by the summary, or by an exception.
RunEnded == ar_pc \in {"done", "failed"}

\* C27: when writing one event's file fails, the failure is not swallowed
\* and that event's archival is aborted; the failed event leaves no file
\* behind, and the events after it are still archived, each under a path
\* that was free (as they would be without the failed event in the list).
C27_FailedWriteAbortsOneEvent ==
    \A k \in FailedEventWrites :
        /\ ar_error # None
        /\ ~\E m \in EventWrites : ar_writes[m].event = ar_writes[k].event
        /\ ~Exists(ar_fs, ar_writes[k].path)
        /\ RunEnded =>
              \A i \in Archivable :
                  i > ar_writes[k].event =>
                      \E m \in EventWrites :
                          ar_writes[m].event = i /\ ~ar_writes[m].existed

\* The positions in ar_writes of the note downloads that returned failure.
FailedNoteWrites == {k \in 1..Len(ar_writes) : ar_writes[k].kind = "note_failed"}

\* The note files created in the run.
NoteFilesCreated == {k \in NoteAttempts : ar_writes[k].created}

\* The archive without what failed downloads left in it.
WithoutPartialFiles == {f \in ar_fs : f.content # [kind |-> "partial"]}

\* The path resolved for a note in this step is the one it would get had
\* the earlier failed downloads left nothing.
NotPushedByFailedDownloads ==
    NotePathResolved =>
        ar_writes'[Len(ar_writes')].path =
            NotePath(WithoutPartialFiles, ar_event_dir, Get(ArAttachment, "title", <<>>))

\* C29: a note download that returns failure leaves the archive unchanged:
\* no new file, empty or partial, exists afterwards at the path resolved for
\* it, so after any run the number of note files created equals the total
\* notes count, and a later note with the same title is not pushed to a
\* higher _<n> suffix by an earlier failed download.
C29_FailedDownloadLeavesNothing ==
    /\ [](\A k \in FailedNoteWrites : ~Exists(ar_fs, ar_writes[k].path))
    /\ [](ar_pc = "done" => Cardinality(NoteFilesCreated) = StatsTotal(gemini_stats))
    /\ [][NotPushedByFailedDownloads]_vars

(***************************************************************************)
(* Claims about which events the statistics pipeline takes in (checked     *)
(* under SpecStats).                                                       *)
(***************************************************************************)

\* The event the loop of export_events_to_csv is about to handle.
AtStatEvent == st_pc = "loop" /\ st_i <= Len(st_events)
StatEvent == st_events[st_i]

\* The display identity of an attendee: the name if present, else the email.
DisplayIdentity(a) == IF "displayName" \in DOMAIN a THEN a.displayName ELSE a.email

\* The user's display identity in an event: that of the attendee entry with
\* the user's email, and the email itself when there is no such entry.
UserDisplayIdentities(event, user_email) ==
    LET own == {a \in Elements(event.attendees) : a.email = user_email}
    IN  IF own = {} THEN {user_email} ELSE {DisplayIdentity(a) : a \in own}

\* The event has more than one attendee and the user's display identity is
\* among those of the attendees who accepted.
GroupMeetingUserAccepted(event, user_email) ==
    /\ "attendees" \in DOMAIN event
    /\ Len(event.attendees) > 1
    /\ \E a \in Elements(event.attendees) :
        /\ "responseStatus" \in DOMAIN a
        /\ a.responseStatus = "accepted"
        /\ DisplayIdentity(a) \in UserDisplayIdentities(event, user_email)

\* Start and end both carry a dateTime.
HasDateTimes(event) ==
    /\ "start" \in DOMAIN event /\ "dateTime" \in DOMAIN event.start
    /\ "end" \in DOMAIN event /\ "dateTime" \in DOMAIN event.end

\* The step adds a meeting row, counts the event and puts it in the
\* current DailyStat.
Contributes ==
    /\ count' = count + 1
    /\ Len(meetings_csv') = Len(meetings_csv) + 1
    /\ current' # NoDate
    /\ current_count' >= 1

\* The step leaves the accumulator, the result mapping and the rows alone.
LeavesStatsAlone ==
    UNCHANGED <<count, stats, current, cumulative_time, current_count, meetings_csv>>

\* C17: an event contributes to the statistics pipeline iff it has more
\* than one attendee and the user's display identity (name if present, else
\* email) is among the display identities of the attendees who accepted;
\* every other event leaves accumulator, result mapping and rows unchanged.
\* (Stated for events whose start and end carry a dateTime.)
C17_ContributesIffGroupAccepted ==
    [][(AtStatEvent /\ HasDateTimes(StatEvent)) =>
        IF GroupMeetingUserAccepted(StatEvent, st_user_email)
        THEN Contributes
        ELSE LeavesStatsAlone]_vars

\* C18: a qualifying event whose start or end carries only a bare date, or
\* that lacks a start, is skipped: it adds nothing to any DailyStat or row,
\* the run does not fail, and the loop goes on with the events after it.
C18_DateOnlyEventSkipped ==
    [][(AtStatEvent /\ ~HasDateTimes(StatEvent)
            /\ GroupMeetingUserAccepted(StatEvent, st_user_email)) =>
        /\ UNCHANGED <<stats, current, cumulative_time, current_count, meetings_csv>>
        /\ st_pc' = "loop"
        /\ st_i' = st_i + 1
        /\ st_error' = st_error]_vars

\* The statistics pipeline counts the event handled in this step.
CountedByStatistics == count' = count + 1

\* C30: the two pipelines agree on what 'the user accepted' means: for every
\* event with more than one attendee and every configured user email, the
\* statistics pipeline counts the event iff get_attendance_status classifies
\* it as 'attended' for that email, also when the user's attendee entry
\* carries a displayName or an email that differs only in letter case.
C30_PipelinesAgree ==
    [][(AtStatEvent /\ Len(Get(StatEvent, "attendees", <<>>)) > 1) =>
        (CountedByStatistics <=>
            get_attendance_status(StatEvent, st_user_email) = "attended")]_vars

(***************************************************************************)
(* The CLI entry point main (wallaby/cli/main.py) with the three           *)
(* subcommands and Config.validate (wallaby/config.py).                    *)
(***************************************************************************)

\* parsed_args.command: None when no subcommand is given.
Commands == {"list-calendars", "list-events", "download-notes"}

\* $EMAIL: unset, or an address.
EnvEmails == {None} \cup {"a@x", "A@x"}

\* $GOOGLE_CREDS_PATH: unset, the path of no file, the path of a file.
EnvCredentials == {"unset", "missing file", "file"}

\* Exceptions of the credential and listing calls: HttpError answers, and
\* failures below HTTP (connection, token refresh).
TransportErrors == {"HttpError authorization", "HttpError rateLimit",
                    "TransportError", "RefreshError"}

\* Exceptions of the pipelines after the fetch.
PipelineErrors == {"TypeError", "KeyError", "OSError"}

NoExit == [how |-> "running"]

\* An entry of the log: what happened, and the exception if there was one.
Entry(what, error) == [what |-> what, error |-> error]

\* `return code` from main, under `sys.exit(main())`.
Return(code) == [how |-> "return", code |-> code]

\* exit(code) inside the subcommand: SystemExit passes `except Exception`.
SystemExit(code) == [how |-> "SystemExit", code |-> code]

InitCli ==
    /\ cli_pc = "parse"
    /\ cli_command \in Commands \cup {None}
    /\ cli_email \in EnvEmails
    /\ cli_credentials \in EnvCredentials
    /\ cli_log = <<>>
    /\ cli_exit = NoExit

IdleCli ==
    /\ cli_pc = "idle"
    /\ cli_command = None
    /\ cli_email = None
    /\ cli_credentials = "unset"
    /\ cli_log = <<>>
    /\ cli_exit = NoExit

\* Lines 85-87: no subcommand.
NoCommand ==
    /\ cli_pc = "parse"
    /\ cli_command = None
    /\ cli_log' = Append(cli_log, Entry("help", None))
    /\ cli_exit' = Return(1)
    /\ cli_pc' = "exited"
    /\ UNCHANGED <<cli_command, cli_email, cli_credentials>>
    /\ UNCHANGED cliOthers

\* Lines 89-101: the subcommand's main is called.
CallSubcommand ==
    /\ cli_pc = "parse"
    /\ cli_command \in Commands
    /\ cli_pc' = "validate"
    /\ UNCHANGED <<cli_command, cli_email, cli_credentials, cli_log, cli_exit>>
    /\ UNCHANGED cliOthers

\* Variant: Config.validate reports the failure and returns.
ValidateFailureReported == NoExit

\* Config.validate with a failure: exit(1) for a missing email or a missing
\* credentials file; exists(None) raises TypeError when the path is unset,
\* which main catches (lines 109-111).
ValidateFailure ==
    IF cli_email = None THEN SystemExit(1)
    ELSE IF cli_credentials = "unset" THEN Return(1)
    ELSE SystemExit(1)

ValidateFails ==
    /\ cli_pc = "validate"
    /\ cli_email = None \/ cli_credentials # "file"
    /\ cli_log' = Append(cli_log, Entry("configuration failure", None))
    /\ cli_exit' = ValidateFailure
    /\ cli_pc' = IF ValidateFailure = NoExit THEN "auth" ELSE "exited"
    /\ UNCHANGED <<cli_command, cli_email, cli_credentials>>
    /\ UNCHANGED cliOthers

ValidateOk ==
    /\ cli_pc = "validate"
    /\ cli_email # None /\ cli_credentials = "file"
    /\ cli_pc' = "auth"
    /\ UNCHANGED <<cli_command, cli_email, cli_credentials, cli_log, cli_exit>>
    /\ UNCHANGED cliOthers

\* auth.get_credentials() returns.
AuthOk ==
    /\ cli_pc = "auth"
    /\ cli_pc' = "fetch"
    /\ UNCHANGED <<cli_command, cli_email, cli_credentials, cli_log, cli_exit>>
    /\ UNCHANGED cliOthers

\* Lines 109-111: an exception of the subcommand.
ExceptionCaught == Return(1)

\* auth.get_credentials(), list_calendars() or get_events() raises.
TransportFails ==
    /\ cli_pc \in {"auth", "fetch"}
    /\ \E error \in TransportErrors :
        cli_log' = Append(cli_log, Entry("transport failure", error))
    /\ cli_exit' = ExceptionCaught
    /\ cli_pc' = "exited"
    /\ UNCHANGED <<cli_command, cli_email, cli_credentials>>
    /\ UNCHANGED cliOthers

\* Line 113, after the subcommand returned.
SubcommandReturned == Return(0)

\* list_calendars() returns, or get_events() returns no events
\* ("No events found."): the subcommand returns.
FetchEndsSubcommand ==
    /\ cli_pc = "fetch"
    /\ \E found \in {"No events found", "calendars listed"} :
        /\ found = "calendars listed" <=> cli_command = "list-calendars"
        /\ cli_log' = Append(cli_log, Entry(found, None))
    /\ cli_exit' = SubcommandReturned
    /\ cli_pc' = "exited"
    /\ UNCHANGED <<cli_command, cli_email, cli_credentials>>
    /\ UNCHANGED cliOthers

\* get_events() returns events: export_events_to_csv or
\* save_events_as_native is called.
FetchReturnsEvents ==
    /\ cli_pc = "fetch"
    /\ cli_command \in {"list-events", "download-notes"}
    /\ cli_pc' = "pipeline"
    /\ UNCHANGED <<cli_command, cli_email, cli_credentials, cli_log, cli_exit>>
    /\ UNCHANGED cliOthers

\* download_document_as_text catches the failure of a download and
\* returns False (drive_client.py lines 58-63); the run goes on.
NoteDownloadFails ==
    /\ cli_pc = "pipeline"
    /\ cli_command = "download-notes"
    /\ \A i \in 1..Len(cli_log) : cli_log[i].what # "note download failure"
    /\ cli_log' = Append(cli_log, Entry("note download failure", None))
    /\ UNCHANGED <<cli_pc, cli_command, cli_email, cli_credentials, cli_exit>>
    /\ UNCHANGED cliOthers

\* The pipeline runs to its end.
PipelineCompletes ==
    /\ cli_pc = "pipeline"
    /\ cli_log' = Append(cli_log, Entry("completed", None))
    /\ cli_exit' = SubcommandReturned
    /\ cli_pc' = "exited"
    /\ UNCHANGED <<cli_command, cli_email, cli_credentials>>
    /\ UNCHANGED cliOthers

\* The pipeline raises.
PipelineFails ==
    /\ cli_pc = "pipeline"
    /\ \E error \in PipelineErrors :
        cli_log' = Append(cli_log, Entry("pipeline failure", error))
    /\ cli_exit' = ExceptionCaught
    /\ cli_pc' = "exited"
    /\ UNCHANGED <<cli_command, cli_email, cli_credentials>>
    /\ UNCHANGED cliOthers

\* Lines 106-108: KeyboardInterrupt anywhere in the subcommand.
Interrupted ==
    /\ cli_pc \in {"validate", "auth", "fetch", "pipeline"}
    /\ cli_log' = Append(cli_log, Entry("KeyboardInterrupt", None))
    /\ cli_exit' = Return(130)
    /\ cli_pc' = "exited"
    /\ UNCHANGED <<cli_command, cli_email, cli_credentials>>
    /\ UNCHANGED cliOthers

NextCli ==
    \/ NoCommand
    \/ CallSubcommand
    \/ ValidateFails
    \/ ValidateOk
    \/ AuthOk
    \/ TransportFails
    \/ FetchEndsSubcommand
    \/ FetchReturnsEvents
    \/ NoteDownloadFails
    \/ PipelineCompletes
    \/ PipelineFails
    \/ Interrupted

(***************************************************************************)
(* Claims about the CLI entry point (checked under SpecCli).               *)
(***************************************************************************)

CliExited == cli_pc = "exited"
Happened(what) == \E i \in 1..Len(cli_log) : cli_log[i].what = what

\* The exit status of the process.
ExitStatus == cli_exit.code

\* What C20 and its amendment share: 0 when the subcommand completes
\* ('No events found' included), 1 without subcommand, 130 on interrupt,
\* non-zero on a configuration failure.
ExitCodesCommon ==
    CliExited =>
        /\ (Happened("completed") \/ Happened("No events found")
                \/ Happened("calendars listed"))
            => cli_exit = [how |-> "return", code |-> 0]
        /\ cli_command = None => cli_exit = [how |-> "return", code |-> 1]
        /\ Happened("KeyboardInterrupt") => cli_exit = [how |-> "return", code |-> 130]
        /\ (cli_command # None /\ ~Happened("KeyboardInterrupt")
                /\ (cli_email = None \/ cli_credentials # "file"))
            => ExitStatus # 0

\* C20: main returns 0 when the subcommand completes, 1 when none is given,
\* 130 when interrupted, and the process exits non-zero whenever a
\* configuration failure or a transport failure occurs in the subcommand.
C20_Original_ExitCodes ==
    /\ ExitCodesCommon
    /\ CliExited =>
        ((Happened("transport failure") \/ Happened("note download failure"))
            => ExitStatus # 0)

\* C20 amended: as C20, the transport failures being those of the
\* credential and listing calls; a failed note download does not change
\* the exit status.
C20_ExitCodes ==
    /\ ExitCodesCommon
    /\ CliExited =>
        /\ Happened("transport failure") => ExitStatus = 1
        /\ (Happened("note download failure") /\ Happened("completed")) => ExitStatus = 0

\* C20 witness: download-notes completes with exit status 0 although a
\* note download failed.
C20_Witness ==
    /\ CliExited
    /\ cli_command = "download-notes"
    /\ Len(cli_log) = 2
    /\ cli_log[1].what = "note download failure"
    /\ cli_log[2].what = "completed"
    /\ cli_exit = [how |-> "return", code |-> 0]

(***************************************************************************)
(* CalendarClient.get_events against a collaborator whose responses form a *)
(* token chain.                                                            *)
(***************************************************************************)

\* The collaborator's token chain: its answer to a request is fixed by the
\* request's pageToken, and is a page (with or without nextPageToken) or a
\* failure of execute().
Chains == [Tokens \cup {None} -> Pages \cup HttpErrors \cup OtherErrors]

NoChain == [t \in Tokens \cup {None} |-> [kind |-> "OtherError", why |-> "network"]]

InitChain == chain \in Chains

IdleChain == chain = NoChain

\* execute() returns or raises what the chain holds for the pageToken of the
\* request just sent.
AnswerFromChain ==
    /\ \/ ReceivePage
       \/ ReceiveHttpError
       \/ ReceiveOtherError
    /\ responses'[Len(responses')] = chain[requests[Len(requests)].pageToken]

NextChain ==
    \/ SendListRequest
    \/ AnswerFromChain

(***************************************************************************)
(* Claims about termination of get_events (checked under SpecChain).       *)
(***************************************************************************)

\* The response carries a nextPageToken.
HasToken(resp) == IsPage(resp) /\ resp.next # None

\* Following the chain from `token`, one of the next n responses carries no
\* nextPageToken (or is a failure).
RECURSIVE ChainEndsWithin(_, _)
ChainEndsWithin(token, n) ==
    /\ n > 0
    /\ \/ ~HasToken(chain[token])
       \/ ChainEndsWithin(chain[token].next, n - 1)

\* Some response of the chain that starts at the first request carries no
\* nextPageToken: a chain that has not ended after one response per cursor
\* revisits a cursor and never ends.
ChainEnds == ChainEndsWithin(None, Cardinality(Tokens) + 1)

Terminated == fetch_result # NoResult

\* A request is issued only as the first one or after a response that
\* carries a nextPageToken, one at a time.
RequestOnlyAfterToken ==
    requests' # requests =>
        /\ Len(requests') = Len(requests) + 1
        /\ Len(responses) = Len(requests)
        /\ responses = <<>> \/ HasToken(responses[Len(responses)])

\* C23: get_events terminates (returns or raises) after finitely many
\* requests whenever some response in the collaborator's token chain carries
\* no nextPageToken; every response that carries a nextPageToken, a page of
\* zero items included, causes exactly one more request.
C23_Terminates ==
    /\ ChainEnds => <>Terminated
    /\ \A n \in 1..(MaxRequests - 1) :
          (Len(responses) = n /\ HasToken(responses[n])) ~> (Len(requests) = n + 1)
    /\ [](Len(requests) <= Len(responses) + 1)
    /\ [][RequestOnlyAfterToken]_vars

\* C23 witness: the chain ended at its third response, after a page of zero
\* items that carried a nextPageToken, and get_events returned after three
\* requests.
C23_Witness ==
    /\ ChainEnds
    /\ fetch_result.status = "returned"
    /\ Len(requests) = 3
    /\ responses[2].items = <<>>
    /\ HasToken(responses[2])

(***************************************************************************)
(* GoogleAuth.get_credentials (wallaby/auth.py)                            *)
(***************************************************************************)

\* Access tokens: of the stored credentials, of a refresh, of the flow.
StoredTokens == {"stored1", "stored2"}
FlowTokens == {"flow1", "flow2"}
RefreshedToken == "refreshed"

\* What Credentials.from_authorized_user_file can load: `valid` is false
\* when the token has expired, and `refresh_token` may be None.
StoredCredentials ==
    {c \in [token : StoredTokens, valid : BOOLEAN, expired : BOOLEAN,
            refresh_token : {None, "r1"}] : c.valid => ~c.expired}

\* The credentials InstalledAppFlow.run_local_server can return.
FlowCredentials ==
    [token : FlowTokens, valid : {TRUE}, expired : {FALSE}, refresh_token : {"r2"}]

\* `creds = NoCreds`: no credentials (a record, as credentials are).
NoCreds == [none |-> TRUE]

\* The token file when get_credentials is called: absent, or the credentials
\* read from it.
TokenFiles == {NoCreds} \cup StoredCredentials

\* creds.to_json(): the tokens are written, `valid` and `expired` are not
\* (they are computed from the token's expiry).
to_json(creds) == [token |-> creds.token, refresh_token |-> creds.refresh_token]

NoCredentials == [status |-> "none"]

InitAuth ==
    /\ au_pc = "load"
    /\ au_stored \in TokenFiles
    /\ au_consent \in FlowCredentials
    /\ au_creds = NoCreds
    /\ au_calls = <<>>
    /\ au_written = <<>>
    /\ au_result = NoCredentials

IdleAuth ==
    /\ au_pc = "idle"
    /\ au_stored = NoCreds
    /\ au_consent = [token |-> "flow1", valid |-> TRUE, expired |-> FALSE,
                     refresh_token |-> "r2"]
    /\ au_creds = NoCreds
    /\ au_calls = <<>>
    /\ au_written = <<>>
    /\ au_result = NoCredentials

\* Lines 23-31: creds = NoCreds; the token file is loaded if it exists.
LoadToken ==
    /\ au_pc = "load"
    /\ au_creds' = au_stored
    /\ au_pc' = "check"
    /\ UNCHANGED <<au_stored, au_consent, au_calls, au_written, au_result>>
    /\ UNCHANGED auOthers

\* Line 34: `if not creds or not creds.valid`
NeedsNewCredentials(creds) == IF creds = NoCreds THEN TRUE ELSE ~creds.valid

\* Variant of CanRefresh: a refresh token is enough, expired or not.
CanRefreshUnexpired(creds) == creds # NoCreds /\ creds.refresh_token # None

\* Line 35: `creds and creds.expired and creds.refresh_token`
CanRefresh(creds) == creds # NoCreds /\ creds.expired /\ creds.refresh_token # None

\* Lines 34, 51: valid credentials are returned as loaded.
ReturnStored ==
    /\ au_pc = "check"
    /\ ~NeedsNewCredentials(au_creds)
    /\ au_result' = [status |-> "returned", value |-> au_creds]
    /\ au_pc' = "done"
    /\ UNCHANGED <<au_stored, au_consent, au_creds, au_calls, au_written>>
    /\ UNCHANGED auOthers

\* Lines 35-37: creds.refresh(Request()) returns.
RefreshToken ==
    /\ au_pc = "check"
    /\ NeedsNewCredentials(au_creds)
    /\ CanRefresh(au_creds)
    /\ au_calls' = Append(au_calls, "refresh")
    /\ au_creds' = [au_creds EXCEPT !.token = RefreshedToken, !.valid = TRUE,
                                    !.expired = FALSE]
    /\ au_pc' = "save"
    /\ UNCHANGED <<au_stored, au_consent, au_written, au_result>>
    /\ UNCHANGED auOthers

\* Lines 38-44: the installed-app flow runs and returns new credentials.
RunFlow ==
    /\ au_pc = "check"
    /\ NeedsNewCredentials(au_creds)
    /\ ~CanRefresh(au_creds)
    /\ au_calls' = Append(au_calls, "flow")
    /\ au_creds' = au_consent
    /\ au_pc' = "save"
    /\ UNCHANGED <<au_stored, au_consent, au_written, au_result>>
    /\ UNCHANGED auOthers

\* Lines 37, 40-44: refresh() or the flow raises (the token was revoked, the
\* user gave no consent, the transport failed); nothing catches it.
ObtainFails ==
    /\ au_pc = "check"
    /\ NeedsNewCredentials(au_creds)
    /\ au_calls' = Append(au_calls, IF CanRefresh(au_creds) THEN "refresh" ELSE "flow")
    /\ au_result' = [status |-> "raised"]
    /\ au_pc' = "done"
    /\ UNCHANGED <<au_stored, au_consent, au_creds, au_written>>
    /\ UNCHANGED auOthers

\* Lines 47-51: the credentials are written to the token file and returned.
SaveToken ==
    /\ au_pc = "save"
    /\ au_written' = Append(au_written, to_json(au_creds))
    /\ au_result' = [status |-> "returned", value |-> au_creds]
    /\ au_pc' = "done"
    /\ UNCHANGED <<au_stored, au_consent, au_creds, au_calls>>
    /\ UNCHANGED auOthers

\* Line 47: open(token_path, "w") raises; nothing catches it.
SaveTokenFails ==
    /\ au_pc = "save"
    /\ au_result' = [status |-> "raised"]
    /\ au_pc' = "done"
    /\ UNCHANGED <<au_stored, au_consent, au_creds, au_calls, au_written>>
    /\ UNCHANGED auOthers

NextAuth ==
    \/ LoadToken
    \/ ReturnStored
    \/ RefreshToken
    \/ RunFlow
    \/ ObtainFails
    \/ SaveToken
    \/ SaveTokenFails

(***************************************************************************)
(* Claims about GoogleAuth.get_credentials (checked under SpecAuth).       *)
(***************************************************************************)

\* How often a collaborator was called.
CallsOf(what) == Cardinality({i \in DOMAIN au_calls : au_calls[i] = what})

AuthReturned == au_pc = "done" /\ au_result.status = "returned"

\* The three cases of the stored token.
StoredValid == au_stored # NoCreds /\ au_stored.valid
StoredRefreshable ==
    /\ au_stored # NoCreds
    /\ ~au_stored.valid
    /\ au_stored.expired
    /\ au_stored.refresh_token # None

\* C28: a stored token that exists and is valid is returned without running
\* the interactive flow and without writing the token file; one that is
\* invalid but expired with a refresh token is refreshed exactly once, the
\* flow is not run, and the token file is written; in every other case the
\* flow runs exactly once and its credentials are written to the token file
\* and returned. Where refresh(), the flow or the write raises instead, the
\* same calls were made, nothing was written and nothing is returned.
C28_GetCredentials ==
    au_pc = "done" =>
        /\ StoredValid =>
              /\ au_result = [status |-> "returned", value |-> au_stored]
              /\ au_calls = <<>>
              /\ au_written = <<>>
        /\ StoredRefreshable =>
              /\ au_calls = <<"refresh">>
              /\ AuthReturned =>
                    /\ au_result.value.token = RefreshedToken
                    /\ au_result.value.refresh_token = au_stored.refresh_token
                    /\ au_written = <<to_json(au_result.value)>>
        /\ (~StoredValid /\ ~StoredRefreshable) =>
              /\ au_calls = <<"flow">>
              /\ AuthReturned =>
                    /\ au_result.value = au_consent
                    /\ au_written = <<to_json(au_consent)>>
        /\ ~AuthReturned => (au_written = <<>> /\ au_calls # <<>>)

\* C28 witness: an expired stored token with a refresh token was refreshed
\* and written, and the flow was not run.
C28_Witness ==
    /\ AuthReturned
    /\ StoredRefreshable
    /\ au_calls = <<"refresh">>
    /\ au_written = <<[token |-> RefreshedToken, refresh_token |-> "r1"]>>

(***************************************************************************)
(* The specifications: one per component, the other components idle.       *)
(***************************************************************************)

StartFetch ==
    /\ InitFetch
    /\ IdleClassify
    /\ IdleMonthWindow
    /\ IdleDayWindow
    /\ IdleStats
    /\ IdleSanitize
    /\ IdleGemini
    /\ IdleArchive
    /\ IdleCli
    /\ IdleChain
    /\ IdleAuth

SpecFetch == StartFetch /\ [][NextFetch]_vars

StartClassify ==
    /\ InitClassify
    /\ IdleFetch
    /\ IdleMonthWindow
    /\ IdleDayWindow
    /\ IdleStats
    /\ IdleSanitize
    /\ IdleGemini
    /\ IdleArchive
    /\ IdleCli
    /\ IdleChain
    /\ IdleAuth

SpecClassify == StartClassify /\ [][NextClassify]_vars

StartMonthWindow ==
    /\ InitMonthWindow
    /\ IdleFetch
    /\ IdleClassify
    /\ IdleDayWindow
    /\ IdleStats
    /\ IdleSanitize
    /\ IdleGemini
    /\ IdleArchive
    /\ IdleCli
    /\ IdleChain
    /\ IdleAuth

SpecMonthWindow == StartMonthWindow /\ [][NextMonthWindow]_vars

StartDayWindow ==
    /\ InitDayWindow
    /\ IdleFetch
    /\ IdleClassify
    /\ IdleMonthWindow
    /\ IdleStats
    /\ IdleSanitize
    /\ IdleGemini
    /\ IdleArchive
    /\ IdleCli
    /\ IdleChain
    /\ IdleAuth

SpecDayWindow == StartDayWindow /\ [][NextDayWindow]_vars

StartStats ==
    /\ InitStats
    /\ IdleFetch
    /\ IdleClassify
    /\ IdleMonthWindow
    /\ IdleDayWindow
    /\ IdleSanitize
    /\ IdleGemini
    /\ IdleArchive
    /\ IdleCli
    /\ IdleChain
    /\ IdleAuth

SpecStats == StartStats /\ [][NextStats]_vars

StartSanitize ==
    /\ InitSanitize
    /\ IdleFetch
    /\ IdleClassify
    /\ IdleMonthWindow
    /\ IdleDayWindow
    /\ IdleStats
    /\ IdleGemini
    /\ IdleArchive
    /\ IdleCli
    /\ IdleChain
    /\ IdleAuth

SpecSanitize == StartSanitize /\ [][NextSanitize]_vars

StartGemini ==
    /\ InitGemini
    /\ IdleFetch
    /\ IdleClassify
    /\ IdleMonthWindow
    /\ IdleDayWindow
    /\ IdleStats
    /\ IdleSanitize
    /\ IdleArchive
    /\ IdleCli
    /\ IdleChain
    /\ IdleAuth

SpecGemini == StartGemini /\ [][NextGemini]_vars

StartArchive ==
    /\ InitArchive
    /\ IdleFetch
    /\ IdleClassify
    /\ IdleMonthWindow
    /\ IdleDayWindow
    /\ IdleStats
    /\ IdleSanitize
    /\ IdleGemini
    /\ IdleCli
    /\ IdleChain
    /\ IdleAuth

SpecArchive == StartArchive /\ [][NextArchive]_vars

StartCli ==
    /\ InitCli
    /\ IdleFetch
    /\ IdleClassify
    /\ IdleMonthWindow
    /\ IdleDayWindow
    /\ IdleStats
    /\ IdleSanitize
    /\ IdleGemini
    /\ IdleArchive
    /\ IdleChain
    /\ IdleAuth

SpecCli == StartCli /\ [][NextCli]_vars

StartChain ==
    /\ InitChain
    /\ InitFetch
    /\ IdleClassify
    /\ IdleMonthWindow
    /\ IdleDayWindow
    /\ IdleStats
    /\ IdleSanitize
    /\ IdleGemini
    /\ IdleArchive
    /\ IdleCli
    /\ IdleAuth

\* get_events against a collaborator with a fixed token chain. The loop is
\* sequential code that keeps running, and execute() is a blocking call that
\* returns or raises: every enabled step is eventually taken.
SpecChain == StartChain /\ [][NextChain]_vars /\ WF_vars(NextChain)

StartAuth ==
    /\ InitAuth
    /\ IdleFetch
    /\ IdleClassify
    /\ IdleMonthWindow
    /\ IdleDayWindow
    /\ IdleStats
    /\ IdleSanitize
    /\ IdleGemini
    /\ IdleArchive
    /\ IdleCli
    /\ IdleChain

SpecAuth == StartAuth /\ [][NextAuth]_vars

====
